---- MODULE Spec2Model ----
(***************************************************************************)
(* Model of the per-brand reconciliation engine of bots.py (DataCleaner    *)
(* and the helpers it is called through).                                  *)
(*                                                                         *)
(* Representation.                                                         *)
(*  - A Python str is a tuple of one-character strings: 'A1' is            *)
(*    <<"A","1">>, '' is <<>>.  NaN (pandas' missing value, also None in   *)
(*    an object column) is the tuple <<"NaN">>, which is no str because    *)
(*    "NaN" is not one character.                                          *)
(*  - A DataFrame is [cols |-> <<column names>>, rows |-> <<rows>>]; a row *)
(*    is a function from the frame's column names to values.  Two ghost    *)
(*    fields that are no columns travel with a row: "_src", the position   *)
(*    of the input record the row descends from, and "_ref", the position  *)
(*    in the reference table of the row a merge attached (0: none).        *)
(*  - An object-dtype boolean Series element is "True", "False" or "NaN".  *)
(*  - pandas 1.x/2.x semantics with object-dtype strings (read_csv).       *)
(***************************************************************************)
EXTENDS Integers, Sequences, FiniteSets, TLC

NaN == <<"NaN">>

isna(v) == v = NaN

notna(v) == v # NaN

Range(s) == {s[i] : i \in 1..Len(s)}

(***************************************************************************)
(* Characters and the str predicates the cleaners use                      *)
(***************************************************************************)
UpperCase == <<"A","B","C","D","E","F","G","H","I","J","K","L","M",
               "N","O","P","Q","R","S","T","U","V","W","X","Y","Z">>

LowerCase == <<"a","b","c","d","e","f","g","h","i","j","k","l","m",
               "n","o","p","q","r","s","t","u","v","w","x","y","z">>

DecimalDigits == {"0","1","2","3","4","5","6","7","8","9"}

\* U+00BD VULGAR FRACTION ONE HALF: str.isnumeric() is True, str.isdigit() is False
Half == "U+00BD"

c_isalpha(c) == c \in Range(UpperCase) \cup Range(LowerCase)

c_isdigit(c) == c \in DecimalDigits

c_isnumeric(c) == c \in DecimalDigits \cup {Half}

c_isalnum(c) == c_isalpha(c) \/ c_isdigit(c) \/ c_isnumeric(c)

c_isspace(c) == c = " "

c_lower(c) ==
    IF c \in Range(UpperCase)
    THEN LowerCase[CHOOSE i \in 1..26 : UpperCase[i] = c]
    ELSE c

\* str.isalpha() etc. of a non-empty str: every character qualifies
isalpha(s) == Len(s) > 0 /\ \A i \in 1..Len(s) : c_isalpha(s[i])

isdigit(s) == Len(s) > 0 /\ \A i \in 1..Len(s) : c_isdigit(s[i])

isnumeric(s) == Len(s) > 0 /\ \A i \in 1..Len(s) : c_isnumeric(s[i])

isalnum(s) == Len(s) > 0 /\ \A i \in 1..Len(s) : c_isalnum(s[i])

\* str.split(sep): the list of the segments between the occurrences of sep
RECURSIVE split(_, _)
split(s, sep) ==
    IF \A i \in 1..Len(s) : s[i] # sep
    THEN <<s>>
    ELSE LET i == CHOOSE k \in 1..Len(s) : s[k] = sep /\ \A j \in 1..(k-1) : s[j] # sep
         IN  <<SubSeq(s, 1, i-1)>> \o split(SubSeq(s, i+1, Len(s)), sep)

\* '/' in s
contains(s, sep) == \E i \in 1..Len(s) : s[i] = sep

\* str.startswith(prefix) for a one-character prefix
startswith(s, c) == Len(s) >= 1 /\ s[1] = c

\* str.strip(): leading and trailing whitespace removed
RECURSIVE lstrip(_)
lstrip(s) == IF Len(s) > 0 /\ c_isspace(s[1]) THEN lstrip(Tail(s)) ELSE s

RECURSIVE rstrip(_)
rstrip(s) ==
    IF Len(s) > 0 /\ c_isspace(s[Len(s)]) THEN rstrip(SubSeq(s, 1, Len(s)-1)) ELSE s

strip(s) == rstrip(lstrip(s))

\* re.sub(r'\s+', ' ', s): every run of whitespace becomes one space
RECURSIVE collapse_spaces(_)
collapse_spaces(s) ==
    IF Len(s) = 0 THEN <<>>
    ELSE IF c_isspace(s[1])
         THEN <<" ">> \o collapse_spaces(lstrip(s))
         ELSE <<s[1]>> \o collapse_spaces(Tail(s))

\* the position after the longest run of decimal digits starting at i
RECURSIVE skip_digits(_, _)
skip_digits(s, i) ==
    IF i <= Len(s) /\ c_isdigit(s[i]) THEN skip_digits(s, i+1) ELSE i

RECURSIVE skip_spaces(_, _)
skip_spaces(s, i) ==
    IF i <= Len(s) /\ c_isspace(s[i]) THEN skip_spaces(s, i+1) ELSE i

Americana == <<"a","m","e","r","i","c","a","n","a">>

\* end (exclusive) of the match of (?i)americana\s*\d+(?:\.\d+)? at position i, 0 if none
americana_match(s, i) ==
    IF i + 8 > Len(s) \/ \E k \in 1..9 : c_lower(s[i+k-1]) # Americana[k]
    THEN 0
    ELSE LET j == skip_spaces(s, i+9)
             k == skip_digits(s, j)
         IN  IF k = j
             THEN 0
             ELSE IF k+1 <= Len(s) /\ s[k] = "." /\ c_isdigit(s[k+1])
                  THEN skip_digits(s, k+1)
                  ELSE k

\* str.replace(r'(?i)americana\s*\d+(?:\.\d+)?', '', regex=True) from position i on
RECURSIVE remove_americana(_, _)
remove_americana(s, i) ==
    IF i > Len(s) THEN <<>>
    ELSE LET e == americana_match(s, i)
         IN  IF e = 0
             THEN <<s[i]>> \o remove_americana(s, i+1)
             ELSE remove_americana(s, e)

(***************************************************************************)
(* pandas Series.str accessors on one element (NaN propagates)             *)
(***************************************************************************)
\* Series.str.split('/').str[k]
str_split_get(v, k) ==
    IF isna(v) THEN NaN
    ELSE LET parts == split(v, "/")
         IN  IF k < Len(parts) THEN parts[k+1] ELSE NaN

\* Series.str[k]: the k-th character as a str, NaN when out of range
str_get(v, k) ==
    IF isna(v) THEN NaN
    ELSE IF k < Len(v) THEN <<v[k+1]>> ELSE NaN

\* Series.str.len(): -1 stands for NaN
str_len(v) == IF isna(v) THEN -1 ELSE Len(v)

str_contains(v, sep) ==
    IF isna(v) THEN "NaN" ELSE IF contains(v, sep) THEN "True" ELSE "False"

str_isalpha(v) ==
    IF isna(v) THEN "NaN" ELSE IF isalpha(v) THEN "True" ELSE "False"

str_isnumeric(v) ==
    IF isna(v) THEN "NaN" ELSE IF isnumeric(v) THEN "True" ELSE "False"

str_isalnum(v) ==
    IF isna(v) THEN "NaN" ELSE IF isalnum(v) THEN "True" ELSE "False"

str_startswith(v, c) ==
    IF isna(v) THEN "NaN" ELSE IF startswith(v, c) THEN "True" ELSE "False"

str_strip(v) == IF isna(v) THEN NaN ELSE strip(v)

\* Series.astype(str): NaN becomes the text 'nan'
astype_str(v) == IF isna(v) THEN <<"n","a","n">> ELSE v

\* ops.logical_op's fill_bool: NaN counts as False
fill_bool(b) == b = "True"

(***************************************************************************)
(* Series: a tuple of values, one per row.  dtype inference where the code *)
(* depends on it.                                                          *)
(***************************************************************************)
\* read_csv: a column with rows and no value at all is float64, not object
csv_is_float64(s) == Len(s) >= 1 /\ \A i \in 1..Len(s) : isna(s[i])

\* ObjectStringArrayMixin._str_map with convert=True: the result of mapping the
\* str Series `inp` to `out` is float64 when some input is a value and no output is
map_is_float64(inp, out) ==
    /\ \E i \in 1..Len(inp) : notna(inp[i])
    /\ \A i \in 1..Len(out) : isna(out[i])

\* ops.logical_op for  k & s  (Series.__rand__ with the int scalar k): on a bool
\* Series numpy computes the bitwise and of k with 0/1; on an object Series (one
\* holding NaN) that raises TypeError and pandas falls back to bool(k) and s
rand_scalar(k, s) ==
    IF \E i \in 1..Len(s) : s[i] = "NaN"
    THEN [i \in 1..Len(s) |-> k # 0 /\ fill_bool(s[i])]
    ELSE [i \in 1..Len(s) |-> k % 2 = 1 /\ s[i] = "True"]

\* bool Series & object Series: NaN on the right is filled with False first
and_bool_obj(a, b) == [i \in 1..Len(a) |-> a[i] /\ fill_bool(b[i])]

\* object Series & bool Series: NaN on the left gives NaN, then False
and_obj_bool(a, b) == [i \in 1..Len(a) |-> fill_bool(a[i]) /\ b[i]]

\* int/float Series >= bool Series: numpy compares with True as 1, False as 0;
\* a NaN length (-1) compares False
ge_len_bool(l, b) ==
    [i \in 1..Len(l) |-> l[i] # -1 /\ l[i] >= (IF b[i] THEN 1 ELSE 0)]

\* int/float Series >= int scalar
ge_len_int(l, k) == [i \in 1..Len(l) |-> l[i] # -1 /\ l[i] >= k]

(***************************************************************************)
(* DataFrame operations                                                    *)
(***************************************************************************)
Ghost == {"_src", "_ref"}

NoFrame == [cols |-> <<>>, rows |-> <<>>]

HasCol(df, c) == c \in Range(df.cols)

HasCols(df, cs) == \A i \in 1..Len(cs) : HasCol(df, cs[i])

\* DataFrame.empty: no rows or no columns
empty(df) == Len(df.rows) = 0 \/ Len(df.cols) = 0

\* df[c] as a Series
Column(df, c) == [i \in 1..Len(df.rows) |-> df.rows[i][c]]

RowWith(r, c, v) == [k \in DOMAIN r \cup {c} |-> IF k = c THEN v ELSE r[k]]

\* df[c] = s : replaces the column, or appends it when new
SetColumn(df, c, s) ==
    [cols |-> IF HasCol(df, c) THEN df.cols ELSE Append(df.cols, c),
     rows |-> [i \in 1..Len(df.rows) |-> RowWith(df.rows[i], c, s[i])]]

\* variant: the column is created when absent but an existing one is left as it is
SetColumnNaN_only_new(df, c) ==
    IF HasCol(df, c) THEN df ELSE SetColumn(df, c, [i \in 1..Len(df.rows) |-> NaN])

\* df[c] = np.nan
SetColumnNaN(df, c) == SetColumn(df, c, [i \in 1..Len(df.rows) |-> NaN])

\* df[mask]
RECURSIVE MaskRows(_, _, _)
MaskRows(rows, mask, i) ==
    IF i > Len(rows) THEN <<>>
    ELSE (IF mask[i] THEN <<rows[i]>> ELSE <<>>) \o MaskRows(rows, mask, i+1)

Filter(df, mask) == [cols |-> df.cols, rows |-> MaskRows(df.rows, mask, 1)]

\* df[[c1, c2, ...]] when every column exists
Select(df, cs) ==
    [cols |-> cs,
     rows |-> [i \in 1..Len(df.rows) |->
                 [k \in Range(cs) \cup Ghost |-> df.rows[i][k]]]]

\* df.rename(columns={c: c + suffix for c in cs})
Renamed(c, cs, suffix) == IF c \in cs THEN c \o suffix ELSE c

Rename(df, cs, suffix) ==
    [cols |-> [i \in 1..Len(df.cols) |-> Renamed(df.cols[i], cs, suffix)],
     rows |-> [i \in 1..Len(df.rows) |->
                 LET r == df.rows[i]
                 IN  [k \in {Renamed(c, cs, suffix) : c \in DOMAIN r} |->
                        r[CHOOSE c \in DOMAIN r : Renamed(c, cs, suffix) = k]]]]

\* df.drop(columns=[c])
SeqWithout(s, c) == SelectSeq(s, LAMBDA x : x # c)

DropColumn(df, c) ==
    [cols |-> SeqWithout(df.cols, c),
     rows |-> [i \in 1..Len(df.rows) |->
                 [k \in DOMAIN df.rows[i] \ {c} |-> df.rows[i][k]]]]

\* df.drop_duplicates(key): the first row of every key value is kept
RECURSIVE DropDuplicateRows(_, _, _)
DropDuplicateRows(rows, key, i) ==
    IF i > Len(rows) THEN <<>>
    ELSE (IF \E j \in 1..(i-1) : rows[j][key] = rows[i][key]
          THEN <<>> ELSE <<rows[i]>>) \o DropDuplicateRows(rows, key, i+1)

drop_duplicates(df, key) ==
    [cols |-> df.cols, rows |-> DropDuplicateRows(df.rows, key, 1)]

\* left.merge(right, on=keys, how='left'): every left row once per matching right
\* row, in the right table's order, or once with NaN when no right row matches.
\* Equal keys match, NaN with NaN included.  The columns of the two frames other
\* than the keys are disjoint in every call of the cleaners.
RightOnly(right, keys) == SelectSeq(right.cols, LAMBDA c : c \notin Range(keys))

JoinRow(l, r, extra) ==
    [k \in DOMAIN l \cup Range(extra) |->
        IF k = "_ref" THEN r["_src"]
        ELSE IF k \in Range(extra) THEN r[k] ELSE l[k]]

MissRow(l, extra) ==
    [k \in DOMAIN l \cup Range(extra) |->
        IF k = "_ref" THEN 0
        ELSE IF k \in Range(extra) THEN NaN ELSE l[k]]

Matches(l, right, keys) ==
    SelectSeq(right.rows, LAMBDA r : \A k \in Range(keys) : r[k] = l[k])

RECURSIVE MergeRows(_, _, _, _, _)
MergeRows(lrows, right, keys, extra, i) ==
    IF i > Len(lrows) THEN <<>>
    ELSE LET l == lrows[i]
             m == Matches(l, right, keys)
         IN  (IF Len(m) = 0
              THEN <<MissRow(l, extra)>>
              ELSE [j \in 1..Len(m) |-> JoinRow(l, m[j], extra)])
             \o MergeRows(lrows, right, keys, extra, i+1)

merge_left(left, right, keys) ==
    LET extra == RightOnly(right, keys)
    IN  [cols |-> left.cols \o extra,
         rows |-> MergeRows(left.rows, right, keys, extra, 1)]

\* Series.combine_first: the caller's value where it is not NaN, else the other's
combine_first(a, b) == IF notna(a) THEN a ELSE b

\* pd.concat([a, b], ignore_index=True): the union of the columns, NaN where a
\* frame lacks a column
Widen(r, allcols) ==
    [k \in Range(allcols) \cup Ghost |-> IF k \in DOMAIN r THEN r[k] ELSE NaN]

concat(a, b) ==
    LET allcols == a.cols \o SelectSeq(b.cols, LAMBDA c : c \notin Range(a.cols))
    IN  [cols |-> allcols,
         rows |-> [i \in 1..Len(a.rows) |-> Widen(a.rows[i], allcols)]
                  \o [i \in 1..Len(b.rows) |-> Widen(b.rows[i], allcols)]]

(***************************************************************************)
(* What a call of a cleaner leaves behind.                                 *)
(*   status     "ok": returned the enriched frame; "no_dict": reported the *)
(*              missing dictionary (st.error) and returned its argument;   *)
(*              otherwise the exception the call raised                    *)
(*   df_final   the frame returned (NoFrame when the call raised)          *)
(*   df_null    the caller's frame after the call (the cleaners add        *)
(*              columns to their argument in place)                        *)
(*   df_valido, df_invalido   the partition, once `partitioned`            *)
(*   dict       self.<brand>_dict after the call                           *)
(*   held       the table that was self.<brand>_dict before the call, as   *)
(*              the call left it                                           *)
(***************************************************************************)
Outcome(status, final, null, valido, invalido, parted, dict) ==
    [status |-> status, df_final |-> final, df_null |-> null,
     df_valido |-> valido, df_invalido |-> invalido,
     partitioned |-> parted, dict |-> dict, held |-> dict]

\* the call left `held` in the table that was self.<brand>_dict when it started
Holding(held, result) == [result EXCEPT !.held = held]

\* variant: an empty frame is handed back
NoDict_empty_result(df_null, dict) ==
    Outcome("no_dict", NoFrame, df_null, NoFrame, NoFrame, FALSE, dict)

\* if <dict>.empty: st.error(...); return df_null
NoDict(df_null, dict) ==
    Outcome("no_dict", df_null, df_null, NoFrame, NoFrame, FALSE, dict)

Raised(exc, df_null, dict) ==
    Outcome(exc, NoFrame, df_null, NoFrame, NoFrame, FALSE, dict)

RaisedAfterSplit(exc, df_null, valido, invalido, dict) ==
    Outcome(exc, NoFrame, df_null, valido, invalido, TRUE, dict)

Returned(final, df_null, valido, invalido, dict) ==
    Outcome("ok", final, df_null, valido, invalido, TRUE, dict)

\* variant: the mask is not negated
Not_forgotten(mask) == mask

\* ~mask
Not(mask) == [i \in 1..Len(mask) |-> ~mask[i]]

\* the loop "Llenar columnas ... solo si estan vacias" of a partitioning cleaner:
\*   for col in cols:
\*       if col not in df.columns: df[col] = np.nan
\*       if col+suffix in df.columns:
\*           df[col] = df[col+suffix].combine_first(df[col])      (dict_first)
\*           df[col] = df[col].combine_first(df[col+suffix])      (otherwise)
\*           df.drop(columns=[col+suffix])
RECURSIVE fill_if_empty(_, _, _, _, _)
fill_if_empty(df, cols, suffix, dict_first, i) ==
    IF i > Len(cols) THEN df
    ELSE LET col  == cols[i]
             df1  == IF HasCol(df, col) THEN df ELSE SetColumnNaN(df, col)
             ref  == col \o suffix
             df2  == IF HasCol(df1, ref)
                     THEN DropColumn(
                            SetColumn(df1, col,
                              [k \in 1..Len(df1.rows) |->
                                 IF dict_first
                                 THEN combine_first(df1.rows[k][ref], df1.rows[k][col])
                                 ELSE combine_first(df1.rows[k][col], df1.rows[k][ref])]),
                            ref)
                     ELSE df1
         IN  fill_if_empty(df2, cols, suffix, dict_first, i+1)

\* dict[keys + proj].rename(columns={c: c+suffix}), part.merge(temp, on=keys,
\* how='left'), then the fill loop over `fill`.  err is "KeyError" when the
\* dictionary lacks a projected column or a frame lacks a key column.
enrich(part, dict, keys, proj, fill, suffix, dict_first) ==
    IF ~HasCols(dict, keys \o proj) \/ ~HasCols(part, keys)
    THEN [err |-> "KeyError", df |-> NoFrame]
    ELSE LET temp   == Rename(Select(dict, keys \o proj), Range(proj), suffix)
             merged == merge_left(part, temp, keys)
         IN  [err |-> "", df |-> fill_if_empty(merged, fill, suffix, dict_first, 1)]

\* both partitions enriched and concatenated (valid first), as every
\* partitioning cleaner ends
enrich_and_concat(df_null, valido, invalido, dict, keys, proj_v, fill_v, proj_i, fill_i, suffix, dict_first) ==
    LET v == enrich(valido, dict, keys, proj_v, fill_v, suffix, dict_first)
    IN  IF v.err # ""
        THEN RaisedAfterSplit(v.err, df_null, valido, invalido, dict)
        ELSE LET w == enrich(invalido, dict, keys, proj_i, fill_i, suffix, dict_first)
             IN  IF w.err # ""
                 THEN RaisedAfterSplit(w.err, df_null, valido, invalido, dict)
                 ELSE Returned(concat(v.df, w.df), df_null, valido, invalido, dict)

\* formato_correcto of clean_adolfo_data and clean_birken_data, as Python parses it:
\*     len >= (2 & isalpha(str[0]) & isnumeric(str[1]))
\* because & binds tighter than >=
formato_letra_numero(u_estilo) ==
    LET n  == Len(u_estilo)
        l  == [i \in 1..n |-> str_len(u_estilo[i])]
        a  == [i \in 1..n |-> str_isalpha(str_get(u_estilo[i], 0))]
        b  == [i \in 1..n |-> str_isnumeric(str_get(u_estilo[i], 1))]
    IN  ge_len_bool(l, and_bool_obj(rand_scalar(2, a), b))

\* the .str accessor raises AttributeError on the float64 Series that .str[0] or
\* .str[1] yield when no row has such a character
letra_numero_raises(u_estilo) ==
    LET n == Len(u_estilo)
    IN  \/ map_is_float64(u_estilo, [i \in 1..n |-> str_get(u_estilo[i], 0)])
        \/ map_is_float64(u_estilo, [i \in 1..n |-> str_get(u_estilo[i], 1)])

\* lines 691-715 and 770-795: style code, validity, split, name-derived columns
\* of the valid rows (derived: <<column, segment index>> pairs)
split_letra_numero(df_null, dict, derived, proj_v, fill_v, proj_i, fill_i, suffix) ==
    LET names == Column(df_null, "ItemName")
        n     == Len(names)
    IN  IF csv_is_float64(names)
        THEN Raised("AttributeError", df_null, dict)
        ELSE
        LET u_estilo == [i \in 1..n |-> str_split_get(names[i], 0)]
            df1      == SetColumn(df_null, "u_estilo", u_estilo)
        IN  IF letra_numero_raises(u_estilo)
            THEN Raised("AttributeError", df1, dict)
            ELSE
            LET tiene_slash == [i \in 1..n |-> str_contains(names[i], "/")]
                cond_valido == and_obj_bool(tiene_slash, formato_letra_numero(u_estilo))
                valido0     == Filter(df1, cond_valido)
                invalido    == SetColumnNaN(Filter(df1, Not(cond_valido)), "u_estilo")
                AddDerived[k \in 0..Len(derived)] ==
                    IF k = 0 THEN valido0
                    ELSE SetColumn(AddDerived[k-1], derived[k][1],
                           [i \in 1..Len(valido0.rows) |->
                              str_split_get(valido0.rows[i]["ItemName"], derived[k][2])])
                valido      == AddDerived[Len(derived)]
            IN  enrich_and_concat(df1, valido, invalido, dict, <<"ItemCode">>,
                                  proj_v, fill_v, proj_i, fill_i, suffix, TRUE)

clean_adolfo_data(adolfo_dict, df_null) ==
    IF empty(adolfo_dict) THEN NoDict(df_null, adolfo_dict)
    ELSE split_letra_numero(df_null, adolfo_dict,
            <<(<<"u_descrip_color", 3>>)>>,
            <<"u_categoria", "u_genero", "u_familia">>,
            <<"u_categoria", "u_genero", "u_familia">>,
            <<"u_categoria", "u_genero", "u_familia", "u_estilo", "u_descrip_color">>,
            <<"u_categoria", "u_genero", "u_familia", "u_estilo", "u_descrip_color">>,
            "_ad")

clean_birken_data(birken_dict, df_null) ==
    IF empty(birken_dict) THEN NoDict(df_null, birken_dict)
    ELSE split_letra_numero(df_null, birken_dict,
            <<(<<"u_descripcion", 1>>), (<<"u_descrip_color", 3>>)>>,
            <<"u_coleccion", "u_genero", "u_division">>,
            <<"u_genero", "u_coleccion", "u_division">>,
            <<"u_coleccion", "u_genero", "u_division",
              "u_estilo", "u_descripcion", "u_descrip_color">>,
            <<"u_genero", "u_coleccion", "u_division",
              "u_estilo", "u_descripcion", "u_descrip_color">>,
            "_bk")

\* Python True / False held in a column
PyTrue == <<"True">>

PyFalse == <<"False">>

\* variant: the second character is tested with isnumeric
validar_isnumeric(itemname) ==
    IF isna(itemname)
    THEN [u_estilo |-> NaN, letra |-> NaN, numero |-> NaN, es_valido |-> FALSE]
    ELSE LET u_estilo == split(itemname, "/")[1]
         IN  IF Len(u_estilo) >= 2
             THEN [u_estilo |-> u_estilo,
                   letra |-> <<u_estilo[1]>>, numero |-> <<u_estilo[2]>>,
                   es_valido |-> isalpha(<<u_estilo[1]>>) /\ isnumeric(<<u_estilo[2]>>)]
             ELSE [u_estilo |-> u_estilo, letra |-> NaN, numero |-> NaN,
                   es_valido |-> FALSE]

\* validar_y_extraer_u_estilo of clean_pb_data; a NaN itemname has no .split, and
\* the bare except answers [None, None, None, False]
validar_y_extraer_u_estilo(itemname) ==
    IF isna(itemname)
    THEN [u_estilo |-> NaN, letra |-> NaN, numero |-> NaN, es_valido |-> FALSE]
    ELSE LET u_estilo == split(itemname, "/")[1]
         IN  IF Len(u_estilo) >= 2
             THEN [u_estilo |-> u_estilo,
                   letra |-> <<u_estilo[1]>>, numero |-> <<u_estilo[2]>>,
                   es_valido |-> isalpha(<<u_estilo[1]>>) /\ isdigit(<<u_estilo[2]>>)]
             ELSE [u_estilo |-> u_estilo, letra |-> NaN, numero |-> NaN,
                   es_valido |-> FALSE]

PbValid == <<"u_genero", "u_prenda", "u_subprenda", "u_temporalidad">>

PbInvalid == <<"u_genero", "u_prenda", "u_subprenda", "u_temporalidad",
               "u_estilo", "u_descripcion", "u_descrip_color">>

clean_pb_data(pb_dict, df_null) ==
    IF empty(pb_dict) THEN NoDict(df_null, pb_dict)
    ELSE
    LET names == Column(df_null, "ItemName")
        n     == Len(names)
        val   == [i \in 1..n |-> validar_y_extraer_u_estilo(names[i])]
        df1   == SetColumn(SetColumn(SetColumn(SetColumn(df_null,
                    "u_estilo",  [i \in 1..n |-> val[i].u_estilo]),
                    "letra",     [i \in 1..n |-> val[i].letra]),
                    "numero",    [i \in 1..n |-> val[i].numero]),
                    "es_valido", [i \in 1..n |-> IF val[i].es_valido THEN PyTrue ELSE PyFalse])
        es_valido == [i \in 1..n |-> val[i].es_valido]
        Temp(df)  == DropColumn(DropColumn(DropColumn(df, "es_valido"), "letra"), "numero")
        validos0  == Temp(Filter(df1, es_valido))
        invalidos0 == Temp(Filter(df1, Not(es_valido)))
    IN  IF csv_is_float64(names)
        THEN RaisedAfterSplit("AttributeError", df1, validos0, invalidos0, pb_dict)
        ELSE
        LET m == Len(validos0.rows)
            validos == SetColumn(SetColumn(validos0,
                         "u_descripcion",
                         [i \in 1..m |-> str_split_get(validos0.rows[i]["ItemName"], 1)]),
                         "u_descrip_color",
                         [i \in 1..m |-> str_split_get(validos0.rows[i]["ItemName"], 3)])
            v == enrich(validos, pb_dict, <<"ItemCode", "Empresa">>,
                        PbValid, PbValid, "_dict", TRUE)
        IN  IF v.err # ""
            THEN RaisedAfterSplit(v.err, df1, validos, invalidos0, pb_dict)
            ELSE
            LET invalidos == SetColumnNaN(invalidos0, "u_estilo")
                w == enrich(invalidos, pb_dict, <<"ItemCode", "Empresa">>,
                            PbInvalid, PbInvalid, "_dict", TRUE)
            IN  IF w.err # ""
                THEN RaisedAfterSplit(w.err, df1, validos, invalidos, pb_dict)
                ELSE Returned(concat(v.df, w.df), df1, validos, invalidos, pb_dict)

SkValid == <<"U_Genero", "U_Suela", "U_Descrip_Color",
             "U_Segmentacion_SK", "U_Division", "U_Temporalidad">>

SkInvalid == <<"U_Estilo", "U_Genero", "U_Suela", "U_Descrip_Color",
               "U_Segmentacion_SK", "U_Division", "U_Temporalidad", "U_Descripcion">>

\* variant: the first character is tested with isalpha
formato_alpha(u_estilo) ==
    LET n == Len(u_estilo)
    IN  and_bool_obj(ge_len_int([i \in 1..n |-> str_len(u_estilo[i])], 2),
                     [i \in 1..n |-> str_isalpha(str_get(u_estilo[i], 0))])

\* formato_correcto of clean_skechers_data: (len >= 2) & isalnum(str[0])
formato_alnum(u_estilo) ==
    LET n == Len(u_estilo)
    IN  and_bool_obj(ge_len_int([i \in 1..n |-> str_len(u_estilo[i])], 2),
                     [i \in 1..n |-> str_isalnum(str_get(u_estilo[i], 0))])

\* variant: ItemCode is converted in the table itself
itemcode_as_text_in_place(skechers_dict) ==
    LET text == SetColumn(skechers_dict, "ItemCode",
                   [i \in 1..Len(skechers_dict.rows) |->
                      astype_str(skechers_dict.rows[i]["ItemCode"])])
    IN  [held |-> text, dict |-> text]

\* self.skechers_dict = self.skechers_dict.copy(), then ItemCode of the copy
\* as text: [held |-> the table copied, dict |-> the copy]
itemcode_as_text(skechers_dict) ==
    [held |-> skechers_dict,
     dict |-> SetColumn(skechers_dict, "ItemCode",
                [i \in 1..Len(skechers_dict.rows) |->
                   astype_str(skechers_dict.rows[i]["ItemCode"])])]

clean_skechers_data(skechers_dict, df_null) ==
    IF empty(skechers_dict) THEN NoDict(df_null, skechers_dict)
    ELSE IF ~HasCol(df_null, "ItemCode") THEN Raised("KeyError", df_null, skechers_dict)
    ELSE
    LET n    == Len(df_null.rows)
        df0  == SetColumn(df_null, "ItemCode",
                  [i \in 1..n |-> astype_str(df_null.rows[i]["ItemCode"])])
    IN  IF ~HasCol(skechers_dict, "ItemCode") THEN Raised("KeyError", df0, skechers_dict)
        ELSE
        LET copied == itemcode_as_text(skechers_dict)
            dict   == copied.dict
            names  == Column(df0, "ItemName")
        IN  Holding(copied.held,
            IF csv_is_float64(names) THEN Raised("AttributeError", df0, dict)
            ELSE
            LET U_Estilo == [i \in 1..n |-> str_split_get(names[i], 0)]
                df1      == SetColumn(df0, "U_Estilo", U_Estilo)
            IN  IF map_is_float64(U_Estilo, [i \in 1..n |-> str_get(U_Estilo[i], 0)])
                THEN Raised("AttributeError", df1, dict)
                ELSE
                LET tiene_slash == [i \in 1..n |-> str_contains(names[i], "/")]
                    cond_valido == and_obj_bool(tiene_slash, formato_alnum(U_Estilo))
                    valido0     == Filter(df1, cond_valido)
                    invalido    == SetColumnNaN(Filter(df1, Not(cond_valido)), "U_Estilo")
                    valido      == SetColumn(valido0, "U_Descripcion",
                                     [i \in 1..Len(valido0.rows) |->
                                        LET d == str_split_get(valido0.rows[i]["ItemName"], 1)
                                        IN  IF isna(d) THEN NaN ELSE remove_americana(d, 1)])
                IN  enrich_and_concat(df1, valido, invalido, dict,
                                      <<"ItemCode", "Empresa">>,
                                      SkValid, SkValid, SkInvalid, SkInvalid, "_sk", FALSE))

(***************************************************************************)
(* clean_ch_data                                                           *)
(***************************************************************************)
Str_MACC == <<"M","A","C","C">>

Str_WFW == <<"W","F","W">>

Str_MFW == <<"M","F","W">>

Str_WACC == <<"W","A","C","C">>

Str_FOOTWEAR == <<"F","O","O","T","W","E","A","R">>

Str_ACCESSORIES == <<"A","C","C","E","S","S","O","R","I","E","S">>

\* variant: the choices of F and W are exchanged
ch_genero_F_W_exchanged(u_estilo) ==
    IF startswith(u_estilo, "F") THEN Str_WFW
    ELSE IF startswith(u_estilo, "W") THEN Str_MACC
    ELSE IF startswith(u_estilo, "C") THEN Str_MFW
    ELSE IF startswith(u_estilo, "U") THEN Str_WACC
    ELSE <<>>

\* np.select(conditions, ['MACC', 'WFW', 'MFW', 'WACC'], default=''): the choice of
\* the first condition that holds
ch_genero(u_estilo) ==
    IF startswith(u_estilo, "F") THEN Str_MACC
    ELSE IF startswith(u_estilo, "W") THEN Str_WFW
    ELSE IF startswith(u_estilo, "C") THEN Str_MFW
    ELSE IF startswith(u_estilo, "U") THEN Str_WACC
    ELSE <<>>

\* np.where(isin(['WFW','MFW']), 'FOOTWEAR', np.where(isin(['MACC','WACC']), 'ACCESSORIES', ''))
ch_segmento(genero) ==
    IF genero \in {Str_WFW, Str_MFW} THEN Str_FOOTWEAR
    ELSE IF genero \in {Str_MACC, Str_WACC} THEN Str_ACCESSORIES
    ELSE <<>>

ChFill == <<"U_Descripcion", "U_Segmentacion_SK", "U_Zone", "U_Descrip_Color">>

\* variant: the columns of the input first, in the input's order
columnas_finales_input_first ==
    <<"ItemCode", "ItemName", "Empresa", "U_Estilo", "U_Genero", "U_Categoria",
      "U_Segmento", "U_Descripcion", "U_Descrip_Color", "U_Segmentacion_SK",
      "U_Zone", "U_Talla">>

columnas_finales ==
    <<"ItemName", "ItemCode", "Empresa", "U_Estilo", "U_Genero", "U_Categoria",
      "U_Segmento", "U_Descripcion", "U_Descrip_Color", "U_Segmentacion_SK",
      "U_Zone", "U_Talla">>

\* for col in cols: if col not in df.columns: df[col] = np.nan
RECURSIVE add_missing(_, _, _)
add_missing(df, cols, i) ==
    IF i > Len(cols) THEN df
    ELSE add_missing(IF HasCol(df, cols[i]) THEN df ELSE SetColumnNaN(df, cols[i]),
                     cols, i+1)

clean_ch_data(ch_dict, df_null) ==
    IF empty(ch_dict) THEN NoDict(df_null, ch_dict)
    ELSE
    LET names == Column(df_null, "ItemName")
        n     == Len(names)
    IN  IF csv_is_float64(names) THEN Raised("AttributeError", df_null, ch_dict)
        ELSE
        LET U_Estilo == [i \in 1..n |-> str_split_get(names[i], 0)]
            df1      == SetColumn(df_null, "U_Estilo", U_Estilo)
        IN  \* np.select refuses a condition that is no bool array: str.startswith
            \* gives an object Series as soon as one style code is NaN
            IF \E i \in 1..n : str_startswith(U_Estilo[i], "F") = "NaN"
            THEN Raised("TypeError", df1, ch_dict)
            ELSE
            LET U_Genero == [i \in 1..n |-> ch_genero(U_Estilo[i])]
                df2 == SetColumn(SetColumn(SetColumn(SetColumn(df1,
                         "U_Genero", U_Genero),
                         "U_Categoria", U_Genero),
                         "U_Segmento", [i \in 1..n |-> ch_segmento(U_Genero[i])]),
                         "U_Talla", [i \in 1..n |-> str_split_get(names[i], 2)])
                df3 == add_missing(df2, ChFill, 1)
                e   == enrich(df3, ch_dict, <<"U_Estilo">>, ChFill, ChFill, "_ch", TRUE)
            IN  IF e.err # ""
                THEN Raised(e.err, df3, ch_dict)
                ELSE Outcome("ok", Select(add_missing(e.df, columnas_finales, 1),
                                          columnas_finales),
                             df3, NoFrame, NoFrame, FALSE, ch_dict)

(***************************************************************************)
(* clean_new_era_data and the team -> league maps of DataCleaner.__init__. *)
(* A map is the list of the <<key, value>> entries of the dict literal, in *)
(* the order written; Python keeps the last entry of a repeated key.       *)
(***************************************************************************)
\* self.team_licenses (lines 181-424)
team_licenses ==
    <<
    <<<<"L","O","S"," ","A","N","G","E","L","E","S"," ","D","O","D","G","E","R","S">>,
      <<"M","L","B">>>>,
    <<<<"N","E","W"," ","Y","O","R","K"," ","Y","A","N","K","E","E","S">>,
      <<"M","L","B">>>>,
    <<<<"P","I","T","T","S","B","U","R","G","H"," ","P","I","R","A","T","E","S">>,
      <<"M","L","B">>>>,
    <<<<"S","A","N"," ","F","R","A","N","C","I","S","C","O"," ","G","I","A","N","T","S">>,
      <<"M","L","B">>>>,
    <<<<"S","E","A","T","T","L","E"," ","M","A","R","I","N","E","R","S">>,
      <<"M","L","B">>>>,
    <<<<"T","A","M","P","A"," ","B","A","Y"," ","R","A","Y","S">>,
      <<"M","L","B">>>>,
    <<<<"N","E","W"," ","E","R","A"," ","B","R","A","N","D","E","D">>,
      <<"N","E","W"," ","E","R","A"," ","B","R","A","N","D","E","D">>>>,
    <<<<"N","O"," ","A","P","L","I","C","A">>,
      <<"N","O"," ","A","P","L","I","C","A">>>>,
    <<<<"N","E","W"," ","E","N","G","L","A","N","D"," ","P","A","T","R","I","O","T","S">>,
      <<"N","F","L">>>>,
    <<<<"H","O","U","S","T","O","N"," ","T","E","X","A","N","S">>,
      <<"N","F","L">>>>,
    <<<<"B","A","L","T","I","M","O","R","E"," ","R","A","V","E","N","S">>,
      <<"N","F","L">>>>,
    <<<<"T","O","R","O","N","T","O"," ","B","L","U","E"," ","J","A","Y","S">>,
      <<"M","L","B">>>>,
    <<<<"H","O","U","S","T","O","N"," ","A","S","T","R","O","S">>,
      <<"M","L","B">>>>,
    <<<<"G","R","E","E","N"," ","B","A","Y"," ","P","A","C","K","E","R","S">>,
      <<"N","F","L">>>>,
    <<<<"B","O","S","T","O","N"," ","R","E","D"," ","S","O","X">>,
      <<"M","L","B">>>>,
    <<<<"B","A","L","T","I","M","O","R","E"," ","O","R","I","O","L","E","S">>,
      <<"M","L","B">>>>,
    <<<<"S","T","."," ","L","O","U","I","S"," ","C","A","R","D","I","N","A","L","S">>,
      <<"M","L","B">>>>,
    <<<<"S","E","A","T","T","L","E"," ","S","E","A","H","A","W","K","S">>,
      <<"N","F","L">>>>,
    <<<<"D","A","L","L","A","S"," ","C","O","W","B","O","Y","S">>,
      <<"N","F","L">>>>,
    <<<<"P","I","T","T","S","B","U","R","G","H"," ","S","T","E","E","L","E","R","S">>,
      <<"N","F","L">>>>,
    <<<<"M","I","A","M","I"," ","D","O","L","P","H","I","N","S">>,
      <<"N","F","L">>>>,
    <<<<"S","T","A","R","W","A","R","S">>,
      <<"E","N","T","E","R","T","A","I","N","M","E","N","T">>>>,
    <<<<"D","A","L","L","A","S"," ","M","A","V","E","R","I","C","K","S">>,
      <<"N","B","A">>>>,
    <<<<"L","O","S"," ","A","N","G","E","L","E","S"," ","L","A","K","E","R","S">>,
      <<"N","B","A">>>>,
    <<<<"N","E","W"," ","O","R","L","E","A","N","S"," ","S","A","I","N","T","S">>,
      <<"N","F","L">>>>,
    <<<<"J","A","C","K","S","O","N","V","I","L","L","E"," ","J","A","G","U","A","R","S">>,
      <<"N","F","L">>>>,
    <<<<"C","L","E","V","E","L","A","N","D"," ","B","R","O","W","N","S">>,
      <<"N","F","L">>>>,
    <<<<"N","E","W"," ","Y","O","R","K"," ","K","N","I","C","K","S">>,
      <<"N","B","A">>>>,
    <<<<"S","A","N"," ","A","N","T","O","N","I","O"," ","S","P","U","R","S">>,
      <<"N","B","A">>>>,
    <<<<"W","A","S","H","I","N","G","T","O","N"," ","N","A","T","I","O","N","A","L","S">>,
      <<"M","L","B">>>>,
    <<<<"O","A","K","L","A","N","D"," ","A","T","H","L","E","T","I","C","S">>,
      <<"M","L","B">>>>,
    <<<<"D","E","T","R","O","I","T"," ","T","I","G","E","R","S">>,
      <<"M","L","B">>>>,
    <<<<"A","N","A","H","E","I","M"," ","A","N","G","E","L","S">>,
      <<"M","L","B">>>>,
    <<<<"N","A","S","C","A","R">>,
      <<"M","O","T","O","R","S","P","O","R","T">>>>,
    <<<<"N","E","W"," ","Y","O","R","K"," ","M","E","T","S">>,
      <<"M","L","B">>>>,
    <<<<"P","H","I","L","A","D","E","L","P","H","I","A"," ","P","H","I","L","L","I","E","S">>,
      <<"M","L","B">>>>,
    <<<<"C","H","I","C","A","G","O"," ","W","H","I","T","E"," ","S","O","X">>,
      <<"M","L","B">>>>,
    <<<<"S","A","N"," ","D","I","E","G","O"," ","P","A","D","R","E","S">>,
      <<"M","L","B">>>>,
    <<<<"C","L","E","V","E","L","A","N","D"," ","I","N","D","I","A","N","S">>,
      <<"M","L","B">>>>,
    <<<<"D","E","N","V","E","R"," ","B","R","O","N","C","O","S">>,
      <<"N","F","L">>>>,
    <<<<"B","U","F","F","A","L","O"," ","B","I","L","L","S">>,
      <<"N","F","L">>>>,
    <<<<"A","T","L","A","N","T","A"," ","F","A","L","C","O","N","S">>,
      <<"N","F","L">>>>,
    <<<<"C","H","I","C","A","G","O"," ","B","E","A","R","S">>,
      <<"N","F","L">>>>,
    <<<<"B","R","O","O","K","L","Y","N"," ","N","E","T","S">>,
      <<"N","B","A">>>>,
    <<<<"C","H","I","C","A","G","O"," ","B","U","L","L","S">>,
      <<"N","B","A">>>>,
    <<<<"S","A","N"," ","F","R","A","N","C","I","S","C","O"," ","4","9","E","R","S">>,
      <<"N","F","L">>>>,
    <<<<"I","N","D","I","A","N","A","P","O","L","I","S"," ","C","O","L","T","S">>,
      <<"N","F","L">>>>,
    <<<<"A","R","I","Z","O","N","A"," ","C","A","R","D","I","N","A","L","S">>,
      <<"N","F","L">>>>,
    <<<<"O","A","K","L","A","N","D"," ","R","A","I","D","E","R","S">>,
      <<"N","F","L">>>>,
    <<<<"L","O","S"," ","A","N","G","E","L","E","S"," ","R","A","M","S">>,
      <<"N","F","L">>>>,
    <<<<"T","A","M","P","A"," ","B","A","Y"," ","B","U","C","C","A","N","E","E","R","S">>,
      <<"N","F","L">>>>,
    <<<<"G","O","L","D","E","N"," ","S","T","A","T","E"," ","W","A","R","R","I","O","R","S">>,
      <<"N","B","A">>>>,
    <<<<"B","O","S","T","O","N"," ","C","E","L","T","I","C","S">>,
      <<"N","B","A">>>>,
    <<<<"C","H","I","C","A","G","O"," ","C","U","B","S">>,
      <<"M","L","B">>>>,
    <<<<"T","W","E","E","T","Y"," ","P","I","E">>,
      <<"E","N","T","E","R","T","A","I","N","M","E","N","T">>>>,
    <<<<"T","O","Y"," ","S","T","O","R","Y">>,
      <<"E","N","T","E","R","T","A","I","N","M","E","N","T">>>>,
    <<<<"A","T","L","A","N","T","A"," ","B","R","A","V","E","S">>,
      <<"M","L","B">>>>,
    <<<<"S","P","I","D","E","R","M","A","N">>,
      <<"E","N","T","E","R","T","A","I","N","M","E","N","T">>>>,
    <<<<"D","E","A","D","P","O","O","L">>,
      <<"E","N","T","E","R","T","A","I","N","M","E","N","T">>>>,
    <<<<"P","H","I","L","A","D","E","L","P","H","I","A"," ","E","A","G","L","E","S">>,
      <<"N","F","L">>>>,
    <<<<"D","E","T","R","O","I","T"," ","L","I","O","N","S">>,
      <<"N","F","L">>>>,
    <<<<"M","I","L","W","A","U","K","E","E"," ","B","U","C","K","S">>,
      <<"N","B","A">>>>,
    <<<<"M","I","A","M","I"," ","H","E","A","T">>,
      <<"N","B","A">>>>,
    <<<<"F","L","O","R","I","D","A"," ","M","A","R","L","I","N","S">>,
      <<"M","L","B">>>>,
    <<<<"M","C","L","A","R","E","N"," ","R","A","C","I","N","G">>,
      <<"M","O","T","O","R","S","P","O","R","T">>>>,
    <<<<"M","I","C","K","E","Y"," ","M","O","U","S","E">>,
      <<"E","N","T","E","R","T","A","I","N","M","E","N","T">>>>,
    <<<<"W","A","S","H","I","N","G","T","O","N"," ","R","E","D","S","K","I","N","S">>,
      <<"N","F","L">>>>,
    <<<<"L","A","S"," ","V","E","G","A","S"," ","R","A","I","D","E","R","S">>,
      <<"N","F","L">>>>,
    <<<<"N","E","W"," ","Y","O","R","K"," ","G","I","A","N","T","S">>,
      <<"N","F","L">>>>,
    <<<<"C","I","N","C","I","N","N","A","T","I"," ","R","E","D","S">>,
      <<"M","L","B">>>>,
    <<<<"H","U","L","K">>,
      <<"E","N","T","E","R","T","A","I","N","M","E","N","T">>>>,
    <<<<"K","A","N","S","A","S"," ","C","I","T","Y"," ","C","H","I","E","F","S">>,
      <<"N","F","L">>>>,
    <<<<"N","E","W"," ","O","R","L","E","A","N","S"," ","P","E","L","I","C","A","N","S">>,
      <<"N","B","A">>>>,
    <<<<"D","E","N","V","E","R"," ","N","U","G","G","E","T","S">>,
      <<"N","B","A">>>>,
    <<<<"M","I","N","N","E","S","O","T","A"," ","V","I","K","I","N","G","S">>,
      <<"N","F","L">>>>,
    <<<<"M","I","A","M","I"," ","M","A","R","L","I","N","S">>,
      <<"M","L","B">>>>,
    <<<<"T","E","N","N","E","S","S","E","E"," ","T","I","T","A","N","S">>,
      <<"N","F","L">>>>,
    <<<<"U","N","K","N","O","W","N">>,
      <<"M","L","B">>>>,
    <<<<"C","A","P","T","A","I","N"," ","A","M","E","R","I","C","A">>,
      <<"E","N","T","E","R","T","A","I","N","M","E","N","T">>>>,
    <<<<"P","H","O","E","N","I","X"," ","S","U","N","S">>,
      <<"N","B","A">>>>,
    <<<<"M","L","B"," ","G","E","N","E","R","I","C"," ","L","O","G","O">>,
      <<"M","L","B">>>>,
    <<<<"B","R","O","O","K","L","Y","N"," ","D","O","D","G","E","R","S">>,
      <<"M","L","B">>>>,
    <<<<"S","Y","L","V","E","S","T","E","R">>,
      <<"E","N","T","E","R","T","A","I","N","M","E","N","T">>>>,
    <<<<"O","R","L","A","N","D","O"," ","M","A","G","I","C">>,
      <<"N","B","A">>>>,
    <<<<"A","R","I","Z","O","N","A"," ","D","I","A","M","O","N","D","B","A","C","K","S">>,
      <<"M","L","B">>>>,
    <<<<"T","E","X","A","S"," ","R","A","N","G","E","R","S">>,
      <<"M","L","B">>>>,
    <<<<"L","O","O","N","E","Y"," ","T","U","N","E","S">>,
      <<"E","N","T","E","R","T","A","I","N","M","E","N","T">>>>,
    <<<<"I","N","D","U","S","T","R","I","A"," ","I","N","C">>,
      <<"E","N","T","E","R","T","A","I","N","M","E","N","T">>>>,
    <<<<"F","O","R","M","U","L","A"," ","E">>,
      <<"M","O","T","O","R","S","P","O","R","T">>>>,
    <<<<"C","L","U","B"," ","D","E","P","O","R","T","I","V","O"," ","O","L","I","M","P","I","A">>,
      <<"H","O","N","D","U","R","A","S"," ","S","O","C","C","E","R">>>>,
    <<<<"C","A","R","O","L","I","N","A"," ","P","A","N","T","H","E","R","S">>,
      <<"N","F","L">>>>,
    <<<<"M","I","N","N","E","S","O","T","A"," ","T","W","I","N","S">>,
      <<"M","L","B">>>>,
    <<<<"J","U","S","T","I","C","E"," ","L","E","A","G","U","E">>,
      <<"E","N","T","E","R","T","A","I","N","M","E","N","T">>>>,
    <<<<"C","O","L","O","R","A","D","O"," ","R","O","C","K","I","E","S">>,
      <<"M","L","B">>>>,
    <<<<"T","O","R","O","N","T","O"," ","R","A","P","T","O","R","S">>,
      <<"N","B","A">>>>,
    <<<<"A","N","I","M","A","N","I","A","C","S">>,
      <<"E","N","T","E","R","T","A","I","N","M","E","N","T">>>>,
    <<<<"M","O","N","S","T","E","R","S"," ","I","N","C">>,
      <<"E","N","T","E","R","T","A","I","N","M","E","N","T">>>>,
    <<<<"H","O","U","S","T","O","N"," ","O","I","L","E","R","S">>,
      <<"N","F","L">>>>,
    <<<<"S","U","P","E","R","M","A","N">>,
      <<"E","N","T","E","R","T","A","I","N","M","E","N","T">>>>,
    <<<<"B","A","T","M","A","N">>,
      <<"E","N","T","E","R","T","A","I","N","M","E","N","T">>>>,
    <<<<"K","A","N","S","A","S"," ","C","I","T","Y"," ","R","O","Y","A","L","S">>,
      <<"M","L","B">>>>,
    <<<<"L","O","S"," ","A","N","G","E","L","E","S"," ","C","L","I","P","P","E","R","S">>,
      <<"N","B","A">>>>,
    <<<<"M","I","N","N","I","E"," ","M","O","U","S","E">>,
      <<"E","N","T","E","R","T","A","I","N","M","E","N","T">>>>,
    <<<<"C","L","U","B"," ","S","O","C","I","A","L"," ","D","E","P","O","R","T","I","V","O"," ","M","U","N","I","C","I","P","A","L">>,
      <<"G","U","A","T","E","M","A","L","A"," ","S","O","C","C","E","R"," ","L","E","A","G","U","E">>>>,
    <<<<"E","M","F">>,
      <<"E","N","T","E","R","T","A","I","N","M","E","N","T">>>>,
    <<<<"U","T","A","H"," ","J","A","Z","Z">>,
      <<"N","B","A">>>>,
    <<<<"N","E","W"," ","Y","O","R","K"," ","J","E","T","S">>,
      <<"N","F","L">>>>,
    <<<<"H","O","U","S","T","O","N"," ","R","O","C","K","E","T","S">>,
      <<"N","B","A">>>>,
    <<<<"L","E","D"," ","Z","E","P","P","E","L","I","N">>,
      <<"E","N","T","E","R","T","A","I","N","M","E","N","T">>>>,
    <<<<"G","U","A","T","E","M","A","L","A">>,
      <<"M","A","R","C","A"," ","P","A","I","S">>>>,
    <<<<"N","O","N","E">>,
      <<"N","E","W"," ","E","R","A"," ","B","R","A","N","D","E","D">>>>,
    <<<<"L","E","H","I","G","H"," ","V","A","L","L","E","Y"," ","I","R","O","N"," ","P","I","G","S">>,
      <<"M","I","L","B">>>>,
    <<<<"F","R","E","S","N","O"," ","G","R","I","Z","Z","L","I","E","S">>,
      <<"M","I","L","B">>>>,
    <<<<"N","F","L"," ","G","E","N","E","R","I","C"," ","L","O","G","O">>,
      <<"N","F","L">>>>,
    <<<<"P","L","U","T","O">>,
      <<"E","N","T","E","R","T","A","I","N","M","E","N","T">>>>,
    <<<<"M","O","N","T","R","E","A","L"," ","E","X","P","O","S">>,
      <<"M","L","B">>>>,
    <<<<"M","I","L","W","A","U","K","E","E"," ","B","R","E","W","E","R","S">>,
      <<"M","L","B">>>>,
    <<<<"G","E","N","E","R","I","C"," ","D","I","S","N","E","Y">>,
      <<"E","N","T","E","R","T","A","I","N","M","E","N","T">>>>,
    <<<<"B","U","G","S"," ","B","U","N","N","Y">>,
      <<"E","N","T","E","R","T","A","I","N","M","E","N","T">>>>,
    <<<<"M","E","M","P","H","I","S"," ","C","H","I","C","K","S">>,
      <<"M","I","L","B">>>>,
    <<<<"P","I","G","L","E","T">>,
      <<"E","N","T","E","R","T","A","I","N","M","E","N","T">>>>,
    <<<<"L","O","S"," ","A","N","G","E","L","E","S"," ","C","H","A","R","G","E","R","S">>,
      <<"N","F","L">>>>,
    <<<<"G","O","O","F","Y">>,
      <<"E","N","T","E","R","T","A","I","N","M","E","N","T">>>>,
    <<<<"T","O","M"," ","&"," ","J","E","R","R","Y">>,
      <<"E","N","T","E","R","T","A","I","N","M","E","N","T">>>>,
    <<<<"H","A","R","T","F","O","R","D"," ","Y","A","R","D"," ","G","O","A","T","S">>,
      <<"M","I","L","B">>>>,
    <<<<"P","H","I","L","A","D","E","L","P","H","I","A"," ","7","6","E","R","S">>,
      <<"N","B","A">>>>,
    <<<<"C","I","N","C","I","N","N","A","T","I"," ","B","E","N","G","A","L","S">>,
      <<"N","F","L">>>>,
    <<<<"A","T","L","A","N","T","A"," ","H","A","W","K","S">>,
      <<"N","B","A">>>>,
    <<<<"F","E","A","R"," ","O","F"," ","G","O","D">>,
      <<"F","E","A","R"," ","O","F"," ","G","O","D">>>>,
    <<<<"N","B","A"," ","L","O","G","O">>,
      <<"N","B","A">>>>,
    <<<<"L","A"," ","C","A","S","A"," ","D","E"," ","P","A","P","E","L">>,
      <<"E","N","T","E","R","T","A","I","N","M","E","N","T">>>>,
    <<<<"N","F","L"," ","O","F","F","I","C","I","A","L"," ","L","O","G","O">>,
      <<"N","F","L">>>>,
    <<<<"T","E","L","L","A","E","C","H","E">>,
      <<"T","E","L","L","A","E","C","H","E">>>>,
    <<<<"C","O","M","U","N","I","C","A","C","I","O","N","E","S"," ","F","C">>,
      <<"G","U","A","T","E","M","A","L","A"," ","S","O","C","C","E","R"," ","L","E","A","G","U","E">>>>,
    <<<<"L","O","S"," ","A","N","G","E","L","E","S"," ","A","N","G","E","L","S">>,
      <<"M","L","B">>>>,
    <<<<"P","A","N","A","M","A">>,
      <<"M","A","R","C","A"," ","P","A","I","S">>>>,
    <<<<"T","E","A","M"," ","G","L","I","S","T","E","N">>,
      <<"E","N","T","E","R","T","A","I","N","M","E","N","T">>>>,
    <<<<"T","I","G","G","E","R">>,
      <<"E","N","T","E","R","T","A","I","N","M","E","N","T">>>>,
    <<<<"P","U","E","R","T","O"," ","R","I","C","O">>,
      <<"F","E","D","E","R","A","C","I","O","N"," ","D","E"," ","B","A","S","E","B","A","L","L"," ","P","U","E","R","T","O"," ","R","I","C","O">>>>,
    <<<<"E","L"," ","S","A","L","V","A","D","O","R">>,
      <<"M","A","R","C","A"," ","P","A","I","S">>>>,
    <<<<"G","O","L","D","E","N"," ","S","T","A","T","E"," ","W","A","R","R","I","O","R">>,
      <<"N","B","A">>>>,
    <<<<"C","H","A","R","L","O","T","T","E"," ","H","O","R","N","E","T","S">>,
      <<"N","B","A">>>>,
    <<<<"N","F","L"," ","G","E","N","E","R","I","C"," ","S","U","P","E","R","B","O","W">>,
      <<"N","F","L">>>>,
    <<<<"B","I","Z","A","R","R","A","P">>,
      <<"E","N","T","E","R","T","A","I","N","M","E","N","T">>>>,
    <<<<"N","F","L"," ","A","L","L"," ","O","V","E","R">>,
      <<"N","F","L">>>>,
    <<<<"D","O","M","I","N","I","C","A","N"," ","R","E","P","U","B","L","I","C">>,
      <<"F","E","D","E","R","A","C","I","O","N"," ","D","O","M","I","N","I","C","A","N","A"," ","D","E"," ","B","A","S","E","B","A","L","L">>>>,
    <<<<"K","O","U","M","O","R","I">>,
      <<"N","E","W"," ","E","R","A"," ","B","R","A","N","D","E","D">>>>,
    <<<<"W","I","N","N","I","E"," ","T","H","E"," ","P","O","O","H">>,
      <<"E","N","T","E","R","T","A","I","N","M","E","N","T">>>>,
    <<<<"O","K","L","A","H","O","M","A"," ","C","I","T","Y"," ","T","H","U","N","D","E","R">>,
      <<"N","B","A">>>>,
    <<<<"M","I","N","N","E","S","O","T","A"," ","T","I","M","B","E","R","W","O","L","V","E","S">>,
      <<"N","B","A">>>>,
    <<<<"M","L","B"," ","P","R","O","P","E","R","T","I","E","S"," ","A","L","L"," ","O","V","E","R">>,
      <<"M","L","B">>>>,
    <<<<"N","B","A"," ","A","L","L"," ","O","V","E","R">>,
      <<"N","B","A">>>>,
    <<<<"C","L","E","V","E","L","A","N","D"," ","C","A","V","A","L","I","E","R","S">>,
      <<"N","B","A">>>>,
    <<<<"W","A","S","H","I","N","G","T","O","N">>,
      <<"N","F","L">>>>,
    <<<<"D","I","S","N","E","Y">>,
      <<"E","N","T","E","R","T","A","I","N","M","E","N","T">>>>,
    <<<<"T","A","Z">>,
      <<"E","N","T","E","R","T","A","I","N","M","E","N","T">>>>,
    <<<<"D","A","F","F","Y"," ","D","U","C","K">>,
      <<"E","N","T","E","R","T","A","I","N","M","E","N","T">>>>,
    <<<<"M","L","B"," ","A","L","L"," ","O","V","E","R">>,
      <<"M","L","B">>>>,
    <<<<"P","O","R","T","L","A","N","D"," ","T","R","A","I","L"," ","B","L","A","Z","E">>,
      <<"N","B","A">>>>,
    <<<<"S","C","O","O","B","Y"," ","D","O","O">>,
      <<"E","N","T","E","R","T","A","I","N","M","E","N","T">>>>,
    <<<<"B","R","O","O","K","L","Y","N"," ","C","Y","C","L","O","N","E","S">>,
      <<"M","I","L","B">>>>,
    <<<<"S","A","C","R","A","M","E","N","T","O"," ","K","I","N","G","S">>,
      <<"N","B","A">>>>,
    <<<<"D","O","M","I","N","I","C","A","N"," ","R","E","P","U","B","L","I","C"," ","C">>,
      <<"B","A","S","E","B","A","L","L"," ","F","E","D","E","R","A","T","I","O","N">>>>,
    <<<<"T","E","E","N"," ","T","I","T","A","N"," ","S","T","A","R"," ","F","I","R","E">>,
      <<"E","N","T","E","R","T","A","I","N","M","E","N","T">>>>,
    <<<<"C","O","L","U","M","B","U","S"," ","C","R","E","W">>,
      <<"M","L","S">>>>,
    <<<<"S","E","A","T","T","L","E"," ","S","O","U","N","D","E","R","S">>,
      <<"M","L","S">>>>,
    <<<<"M","C","L","A","R","E","N"," ","F","1"," ","R","A","C","I","N","G">>,
      <<"M","O","T","O","R","S","P","O","R","T">>>>,
    <<<<"M","L","B"," ","L","O","G","O">>,
      <<"M","L","B">>>>,
    <<<<"S","P","A","C","E"," ","J","A","M">>,
      <<"N","B","A">>>>,
    <<<<"M","A","N","C","H","E","S","T","E","R"," ","U","N","I","T","E","D"," ","F","C">>,
      <<"E","U","R","O","P","E","A","N"," ","S","O","C","C","E","R">>>>,
    <<<<"C","H","E","L","S","E","A"," ","F","C">>,
      <<"E","U","R","O","P","E","A","N"," ","S","O","C","C","E","R">>>>,
    <<<<"D","U","C","A","T","I">>,
      <<"M","O","T","O","R","S","P","O","R","T">>>>,
    <<<<"M","E","R","C","E","D","E","S"," ","B","E","N","Z">>,
      <<"M","O","T","O","R","S","P","O","R","T">>>>,
    <<<<"N","B","A"," ","A","L","L"," ","S","T","A","R"," ","G","A","M","E">>,
      <<"N","B","A">>>>,
    <<<<"R","E","N","A","U","L","T"," ","F","1"," ","R","A","C","I","N","G">>,
      <<"M","O","T","O","R","S","P","O","R","T">>>>,
    <<<<"N","E","W"," ","Y","O","R","K"," ","R","E","D"," ","B","U","L","L","S">>,
      <<"M","L","S">>>>,
    <<<<"I","N","T","E","R"," ","M","I","A","M","I">>,
      <<"M","L","S">>>>,
    <<<<"N","E","W"," ","Y","O","R","K"," ","C","I","T","Y"," ","F","C">>,
      <<"M","L","S">>>>,
    <<<<"N","F","L"," ","L","O","G","O">>,
      <<"N","F","L">>>>,
    <<<<"R","E","N","A","U","L","T"," ","F","1">>,
      <<"M","O","T","O","R","S","P","O","R","T">>>>,
    <<<<"T","E","E","N"," ","T","I","T","A","N"," ","C","Y","B","O","R","G">>,
      <<"E","N","T","E","R","T","A","I","N","M","E","N","T">>>>,
    <<<<"L",".","A","."," ","G","A","L","A","X","Y">>,
      <<"M","L","S">>>>,
    <<<<"T","E","E","N"," ","T","I","T","A","N"," ","R","A","V","E","N">>,
      <<"E","N","T","E","R","T","A","I","N","M","E","N","T">>>>,
    <<<<"L","A","K","E","L","A","N","D"," ","T","I","G","E","R","S">>,
      <<"M","I","L","B">>>>,
    <<<<"R","E","D"," ","B","U","L","L"," ","F","1">>,
      <<"M","O","T","O","R","S","P","O","R","T">>>>,
    <<<<"C","A","L","I","F","O","R","N","I","A"," ","A","N","G","E","L","S">>,
      <<"M","L","B">>>>,
    <<<<"R","E","A","D","I","N","G"," ","F","I","G","H","T","I","N"," ","P","H","I","L","S">>,
      <<"M","I","L","B">>>>,
    <<<<"C","L","E","V","E","L","A","N","D"," ","2","0","2","2">>,
      <<"M","L","B">>>>,
    <<<<"L","O","S"," ","A","N","G","E","L","E","S"," ","F","C">>,
      <<"M","L","S">>>>,
    <<<<"W","A","S","H","I","N","G","T","O","N"," ","C","O","M","M","A","N","D","E","R">>,
      <<"N","F","L">>>>,
    <<<<"D","E","T","R","O","I","T"," ","P","I","S","T","O","N","S">>,
      <<"N","B","A">>>>,
    <<<<"C","L","E","V","E","L","A","N","D"," ","G","U","A","R","D","I","A","N","S">>,
      <<"M","L","B">>>>,
    <<<<"C","H","E","L","S","E","A"," ","F","C"," ","L","I","O","N"," ","C","R","E","S","T">>,
      <<"E","U","R","O","P","E","A","N"," ","S","O","C","C","E","R">>>>,
    <<<<"T","E","E","N"," ","T","I","T","A","N"," ","R","O","B","I","N">>,
      <<"E","N","T","E","R","T","A","I","N","M","E","N","T">>>>,
    <<<<"W","B","C"," ","M","E","X","I","C","O">>,
      <<"W","B","C">>>>,
    <<<<"W","B","C"," ","V","E","N","E","Z","U","E","L","A">>,
      <<"W","B","C">>>>,
    <<<<"W","B","C"," ","P","U","E","R","T","O"," ","R","I","C","O">>,
      <<"W","B","C">>>>,
    <<<<"M","L","B"," ","A","L","L"," ","S","T","A","R"," ","G","A","M","E"," ","L","O","G","O">>,
      <<"M","L","B">>>>,
    <<<<"M","L","B"," ","G","E","N","E","R","I","C"," ","W","O","R","L","D"," ","S","E","R","I","E","S">>,
      <<"M","L","B">>>>,
    <<<<"T","U","C","S","O","N"," ","S","I","D","E","W","I","N","D","E","R","S">>,
      <<"M","I","L","B">>>>,
    <<<<"W","B"," ","1","0","0","T","H"," ","L","O","O","N","E","Y"," ","T","U","N","E","S"," ","M","A","S","H","U","P","S">>,
      <<"E","N","T","E","R","T","A","I","N","M","E","N","T">>>>,
    <<<<"M","E","M","P","H","I","S"," ","G","R","I","Z","Z","L","I","E","S">>,
      <<"N","B","A">>>>,
    <<<<"O","K","L","A","H","O","M","A"," ","C","I","T","Y"," ","T","H","U","N","D","E">>,
      <<"N","B","A">>>>,
    <<<<"P","O","R","T","L","A","N","D"," ","T","R","A","I","L"," ","B","L","A","Z","E","R","S">>,
      <<"N","B","A">>>>,
    <<<<"H","A","A","S"," ","F","O","R","M","U","L","A"," ","1">>,
      <<"M","O","T","O","R","S","P","O","R","T">>>>,
    <<<<"R","E","D"," ","B","U","L","L"," ","F","1"," ","R","A","C","I","N","G">>,
      <<"M","O","T","O","R","S","P","O","R","T">>>>,
    <<<<"W","B"," ","H","A","R","R","Y"," ","P","O","T","T","E","R"," ","D","E","A","T">>,
      <<"E","N","T","E","R","T","A","I","N","M","E","N","T">>>>,
    <<<<"W","B"," ","H","A","R","R","Y"," ","P","O","T","T","E","R"," ","D","E","A","T","H","L","Y"," ","H","O","L","L","O","W"," ","P","T"," ","2">>,
      <<"E","N","T","E","R","T","A","I","N","M","E","N","T">>>>,
    <<<<"W","B","C"," ","P","A","N","A","M","A">>,
      <<"W","B","C">>>>,
    <<<<"W","I","L","E"," ","E"," ","C","O","Y","O","T","E">>,
      <<"E","N","T","E","R","T","A","I","N","M","E","N","T">>>>,
    <<<<"G","R","A","P","E","F","R","U","I","T"," ","L","E","A","G","U","E"," ","L","O">>,
      <<"M","L","B">>>>,
    <<<<"L","A","S"," ","V","E","G","A","S"," ","A","V","I","A","T","O","R","S">>,
      <<"M","I","L","B">>>>,
    <<<<"M","C","L","A","R","E","N"," ","A","U","T","O","M","O","T","I","V","E">>,
      <<"M","O","T","O","R","S","P","O","R","T">>>>,
    <<<<"B","O","S","T","O","N"," ","B","R","A","V","E","S">>,
      <<"M","L","B">>>>,
    <<<<"P","H","I","L","A","D","E","L","P","H","I","A"," ","P","H","I","L","L","I","E">>,
      <<"M","L","B">>>>,
    <<<<"C","L","U","B"," ","D","E","P","O","R","T","I","V","O"," ","O","L","I","M","P">>,
      <<"H","O","N","D","U","R","A","S"," ","S","O","C","C","E","R">>>>,
    <<<<"C","A","N","G","R","E","J","E","R","O","S"," ","D","E"," ","S","A","N","T","U">>,
      <<"P","U","E","R","T","O"," ","R","I","C","O"," ","B","A","S","E","B","A","L","L">>>>,
    <<<<"B","E","A","V","I","S"," ","A","N","D"," ","B","U","T","T","-","H","E","A","D">>,
      <<"E","N","T","E","R","T","A","I","N","M","E","N","T">>>>,
    <<<<"H","O","N","D","U","R","A","S">>,
      <<"M","A","R","C","A"," ","P","A","I","S">>>>,
    <<<<"V","I","S","A"," ","C","A","S","H"," ","A","P","P"," ","R","A","C","I","N","G">>,
      <<"M","O","T","O","R","S","P","O","R","T">>>>,
    <<<<"W","I","L","L","Y"," ","W","O","N","K","A">>,
      <<"E","N","T","E","R","T","A","I","N","M","E","N","T">>>>,
    <<<<"A","L","P","I","N","E"," ","R","A","C","I","N","G">>,
      <<"M","O","T","O","R","S","P","O","R","T">>>>,
    <<<<"T","R","U","E">>,
      <<"N","E","W"," ","E","R","A"," ","B","R","A","N","D","E","D">>>>,
    <<<<"B","R","A","N","D"," ","N","E","W"," ","E","R","A">>,
      <<"N","E","W"," ","E","R","A"," ","B","R","A","N","D","E","D">>>>,
    <<<<"M","A","N","D","A","L","O","R","I","A","N">>,
      <<"E","N","T","E","R","T","A","I","N","M","E","N","T">>>>,
    <<<<"I","R","O","N","M","A","N">>,
      <<"E","N","T","E","R","T","A","I","N","M","E","N","T">>>>,
    <<<<"I","N","C","R","E","D","I","B","L","E"," ","H","U","L","K">>,
      <<"E","N","T","E","R","T","A","I","N","M","E","N","T">>>>,
    <<<<"N","F","L"," ","O","I","L","E","R","S">>,
      <<"N","F","L">>>>,
    <<<<"W","B","C"," ","D","O","M","I","N","I","C","A","N"," ","R","E","P","U","B","L","I","C">>,
      <<"W","B","C">>>>,
    <<<<"M","L","B"," ","M","U","L","T","I"," ","T","E","A","M">>,
      <<"M","L","B">>>>,
    <<<<"A"," ","N","I","G","H","T","M","A","R","E"," ","O","N"," ","E","L","M"," ","S">>,
      <<"E","N","T","E","R","T","A","I","N","M","E","N","T">>>>,
    <<<<"I","N","T","E","R","N","A","T","I","O","N","A","L"," ","S","P","E","E","D","W">>,
      <<"M","O","T","O","R","S","P","O","R","T">>>>,
    <<<<"S","P","O","N","G","E","B","O","B">>,
      <<"E","N","T","E","R","T","A","I","N","M","E","N","T">>>>,
    <<<<"H","E","Y"," ","A","R","N","O","L","D">>,
      <<"E","N","T","E","R","T","A","I","N","M","E","N","T">>>>,
    <<<<"F","R","I","D","A","Y"," ","T","H","E"," ","1","3","T","H">>,
      <<"E","N","T","E","R","T","A","I","N","M","E","N","T">>>>,
    <<<<"D","O","N","A","L","D"," ","D","U","C","K">>,
      <<"E","N","T","E","R","T","A","I","N","M","E","N","T">>>>,
    <<<<"E","N","T","R","E","G","A","S"," ","D","E","S","C","O","N","O","C","I","D","A","S">>,
      <<"N","O"," ","A","P","L","I","C","A">>>>,
    <<<<"P","A","T","R","I","C","K"," ","S","T","A","R">>,
      <<"E","N","T","E","R","T","A","I","N","M","E","N","T">>>>,
    <<<<"E","L","M","E","R"," ","F","U","D","D">>,
      <<"E","N","T","E","R","T","A","I","N","M","E","N","T">>>>,
    <<<<"D","O","W","N"," ","E","A","S","T"," ","W","O","O","D"," ","D","U","C","K","S">>,
      <<"E","N","T","E","R","T","A","I","N","M","E","N","T">>>>,
    <<<<"C","O","R","P","U","S"," ","C","R","I","S","T","I"," ","H","O","O","K","S">>,
      <<"M","I","L","B">>>>,
    <<<<"E","N","T","R","E","G","A","S"," ","A"," ","P","E","R","S","O","N","A","L">>,
      <<"N","O"," ","A","P","L","I","C","A">>>>
    >>

\* variant: the extended map has a team of its own
team_licenses_extended_own_team ==
    <<
    <<<<"y","1">>,
      <<"M","L","B">>>>
    >>

\* self.team_licenses_extended (lines 427-443)
team_licenses_extended ==
    <<
    <<<<"N","O"," ","A","P","L","I","C","A">>,
      <<"N","B","A">>>>,
    <<<<"N","O","N","E">>,
      <<"N","O","N","E"," ","L","I","C","E","N","S","E","D">>>>,
    <<<<"N","E","W"," ","E","R","A"," ","B","R","A","N","D","E","D">>,
      <<"M","L","B">>>>,
    <<<<"P","U","E","R","T","O"," ","R","I","C","O">>,
      <<"M","A","R","C","A"," ","P","A","I","S">>>>,
    <<<<"N","O","N","E">>,
      <<"N","O","N"," ","L","I","C","E","N","S","E","D">>>>,
    <<<<"W","B"," ","H","A","R","R","Y"," ","P","O","T","T","E","R"," ","D","E","A","T","H","L","Y"," ","H","O","L","L","O","W"," ","P","T"," ","2">>,
      <<"W","A","R","N","E","R"," ","B","R","O","S">>>>,
    <<<<"C","A","N","G","R","E","J","E","R","O","S"," ","D","E"," ","S","A","N","T","U">>,
      <<"L","I","G","A"," ","D","E"," ","B","E","I","S","B","O","L"," ","P","R","O","F","E","S","I","O","N","A","L"," ","R","O","B","E","R","T","O"," ","C","L","E","M","E","N","T","E">>>>,
    <<<<"B","U","G","S"," ","B","U","N","N","Y">>,
      <<"W","A","R","N","E","R"," ","B","R","O","S">>>>,
    <<<<"W","I","L","E"," ","E"," ","C","O","Y","O","T","E">>,
      <<"W","A","R","N","E","R"," ","B","R","O","S">>>>,
    <<<<"B","E","A","V","I","S"," ","A","N","D"," ","B","U","T","T","-","H","E","A","D">>,
      <<"N","E","W"," ","E","R","A"," ","B","R","A","N","D","E","D">>>>,
    <<<<"O","A","K","L","A","N","D"," ","A","T","H","L","E","T","I","C","S">>,
      <<"M","A","R","C","A"," ","P","A","I","S">>>>,
    <<<<"E","L","M","E","R"," ","F","U","D","D">>,
      <<"W","A","R","N","E","R"," ","B","R","O","S">>>>,
    <<<<"N","F","L"," ","O","I","L","E","R","S">>,
      <<"M","A","R","C","A"," ","P","A","I","S">>>>,
    <<<<"C","H","I","C","A","G","O"," ","B","E","A","R","S">>,
      <<"M","A","R","C","A"," ","P","A","I","S">>>>,
    <<<<"U","N","K","N","O","W","N">>,
      <<"E","N","T","E","R","T","A","I","N","M","E","N","T">>>>
    >>

\* key in d
dict_has(d, key) == \E i \in 1..Len(d) : d[i][1] = key

\* d[key]
dict_get(d, key) ==
    LET last == CHOOSE i \in 1..Len(d) :
                   d[i][1] = key /\ \A j \in (i+1)..Len(d) : d[j][1] # key
    IN  d[last][2]

columnas_completar ==
    <<"U_Estilo", "U_Silueta", "U_Team", "U_Descrip_Color", "U_Segmento",
      "U_Liga", "U_Coleccion_NE", "U_Genero", "U_Descripcion", "U_Temporalidad">>

columnas_extra == <<"ItemCode", "Empresa", "ItemName", "U_Talla">>

\* "Completar valores nulos": for col in columnas_completar[1:], where both frames
\* have the column, the rows whose value is null take temp_df's value
RECURSIVE completar_nulos(_, _, _)
completar_nulos(df, temp_df, i) ==
    IF i > Len(columnas_completar) THEN df
    ELSE LET col == columnas_completar[i]
         IN  completar_nulos(
               IF HasCol(temp_df, col) /\ HasCol(df, col)
               THEN SetColumn(df, col,
                      [k \in 1..Len(df.rows) |->
                         IF isna(df.rows[k][col]) THEN temp_df.rows[k][col]
                         ELSE df.rows[k][col]])
               ELSE df,
               temp_df, i+1)

\* variant: the extended map is consulted first
liga_de_equipo_extended_first(row) ==
    LET equipo == IF notna(row["U_Team"]) THEN row["U_Team"] ELSE <<>>
    IN  IF dict_has(team_licenses_extended, equipo)
        THEN dict_get(team_licenses_extended, equipo)
        ELSE IF dict_has(team_licenses, equipo) THEN dict_get(team_licenses, equipo)
             ELSE row["U_Liga"]

\* "Aplicar validacion de licencias de equipos": the league of a row whose U_Liga is
\* null or '' after the join
liga_de_equipo(row) ==
    LET equipo == IF notna(row["U_Team"]) THEN row["U_Team"] ELSE <<>>
    IN  IF dict_has(team_licenses, equipo) THEN dict_get(team_licenses, equipo)
        ELSE IF dict_has(team_licenses_extended, equipo)
             THEN dict_get(team_licenses_extended, equipo)
             ELSE row["U_Liga"]

\* variant: every record's league is resolved from its team
validar_licencias_todas(df) ==
    IF HasCol(df, "U_Liga") /\ HasCol(df, "U_Team")
    THEN SetColumn(df, "U_Liga",
           [k \in 1..Len(df.rows) |-> liga_de_equipo(df.rows[k])])
    ELSE df

validar_licencias(df) ==
    IF HasCol(df, "U_Liga") /\ HasCol(df, "U_Team")
    THEN SetColumn(df, "U_Liga",
           [k \in 1..Len(df.rows) |->
              IF isna(df.rows[k]["U_Liga"]) \/ df.rows[k]["U_Liga"] = <<>>
              THEN liga_de_equipo(df.rows[k])
              ELSE df.rows[k]["U_Liga"]])
    ELSE df

\* the U_Descripcion chain: \s+ -> ' ', strip, split('/'), [1], strip
descripcion_segment(name) ==
    IF isna(name) THEN NaN ELSE str_split_get(strip(collapse_spaces(name)), 1)

\* clean_new_era_data up to and including "Completar valores nulos": the frame
\* the league resolver receives
completar_new_era(new_era_dict, df_null) ==
    IF empty(new_era_dict) THEN NoDict(df_null, new_era_dict)
    ELSE
    LET names == Column(df_null, "ItemName")
        n     == Len(names)
    IN  IF csv_is_float64(names) THEN Raised("AttributeError", df_null, new_era_dict)
        ELSE
        LET df1  == SetColumn(df_null, "U_Estilo", [i \in 1..n |-> str_split_get(names[i], 0)])
            seg1 == [i \in 1..n |-> descripcion_segment(names[i])]
        IN  \* the last .str.strip() of the chain is applied to a float64 Series
            \* when no name has a second segment
            IF map_is_float64(names, seg1) THEN Raised("AttributeError", df1, new_era_dict)
            ELSE
            LET df3 == SetColumn(SetColumn(df1,
                         "U_Descripcion", [i \in 1..n |-> str_strip(seg1[i])]),
                         "U_Talla", [i \in 1..n |-> str_split_get(names[i], 2)])
                columnas_disponibles ==
                    SelectSeq(columnas_completar, LAMBDA c : HasCol(new_era_dict, c))
            IN  IF Len(columnas_disponibles) = 0
                THEN Outcome("no_columns", df3, df3, NoFrame, NoFrame, FALSE, new_era_dict)
                ELSE
                LET df_reference == Select(new_era_dict, columnas_disponibles)
                    columnas_existentes ==
                        SelectSeq(columnas_completar \o columnas_extra,
                                  LAMBDA c : HasCol(df3, c))
                    df4 == Select(df3, columnas_existentes)
                    df5 == SetColumn(df4, "U_Estilo",
                             [i \in 1..n |-> astype_str(df4.rows[i]["U_Estilo"])])
                IN  IF ~HasCol(df_reference, "U_Estilo")
                       \/ ~HasCols(df5, columnas_extra)
                    THEN Raised("KeyError", df3, new_era_dict)
                    ELSE
                    LET df_reference_clean ==
                            drop_duplicates(
                              SetColumn(df_reference, "U_Estilo",
                                [i \in 1..Len(df_reference.rows) |->
                                   astype_str(df_reference.rows[i]["U_Estilo"])]),
                              "U_Estilo")
                        temp_df == merge_left(Select(df5, columnas_extra \o <<"U_Estilo">>),
                                              df_reference_clean, <<"U_Estilo">>)
                        joined  == [cols |-> df5.cols,
                                    rows |-> [i \in 1..n |->
                                       RowWith(df5.rows[i], "_ref", temp_df.rows[i]["_ref"])]]
                        filled  == completar_nulos(joined, temp_df, 2)
                    IN  Outcome("ok", filled, df3,
                                NoFrame, NoFrame, FALSE, new_era_dict)

clean_new_era_data(new_era_dict, df_null) ==
    LET completed == completar_new_era(new_era_dict, df_null)
    IN  IF completed.status = "ok"
        THEN [completed EXCEPT !.df_final = validar_licencias(@)]
        ELSE completed

(***************************************************************************)
(* Loading: normalize_column_names, load_data and the module-level loaders *)
(***************************************************************************)
\* col.lower() for the column names the model uses: the names below are the ones
\* whose lower case normalize_column_names knows; every other name of the model
\* lower-cases to a name it does not know
col_lower(col) ==
    CASE col \in {"ItemName", "itemname"}               -> "itemname"
      [] col \in {"ItemCode", "itemcode"}               -> "itemcode"
      [] col \in {"Empresa", "empresa"}                 -> "empresa"
      [] col \in {"U_Estilo", "u_estilo"}               -> "u_estilo"
      [] col \in {"U_Silueta", "u_silueta"}             -> "u_silueta"
      [] col \in {"U_Team", "u_team"}                   -> "u_team"
      [] col \in {"U_Descrip_Color", "u_descrip_color"} -> "u_descrip_color"
      [] col \in {"U_Segmento", "u_segmento"}           -> "u_segmento"
      [] col \in {"U_Liga", "u_liga"}                   -> "u_liga"
      [] col \in {"U_Coleccion_NE", "u_coleccion_ne"}   -> "u_coleccion_ne"
      [] col \in {"U_Genero", "u_genero"}               -> "u_genero"
      [] col \in {"U_Descripcion", "u_descripcion"}     -> "u_descripcion"
      [] col \in {"U_Temporalidad", "u_temporalidad"}   -> "u_temporalidad"
      [] OTHER -> col

\* the elif chain of normalize_column_names
canonical_name(col) ==
    LET col_lower_ == col_lower(col)
    IN  CASE col_lower_ = "itemname"        -> "ItemName"
          [] col_lower_ = "itemcode"        -> "ItemCode"
          [] col_lower_ = "empresa"         -> "Empresa"
          [] col_lower_ = "u_estilo"        -> "U_Estilo"
          [] col_lower_ = "u_silueta"       -> "U_Silueta"
          [] col_lower_ = "u_team"          -> "U_Team"
          [] col_lower_ = "u_descrip_color" -> "U_Descrip_Color"
          [] col_lower_ = "u_segmento"      -> "U_Segmento"
          [] col_lower_ = "u_liga"          -> "U_Liga"
          [] col_lower_ = "u_coleccion_ne"  -> "U_Coleccion_NE"
          [] col_lower_ = "u_genero"        -> "U_Genero"
          [] col_lower_ = "u_descripcion"   -> "U_Descripcion"
          [] col_lower_ = "u_temporalidad"  -> "U_Temporalidad"
          [] OTHER -> col

\* df.rename(columns=column_mapping)
normalize_column_names(df) ==
    [cols |-> [i \in 1..Len(df.cols) |-> canonical_name(df.cols[i])],
     rows |-> [i \in 1..Len(df.rows) |->
                 LET r == df.rows[i]
                     Canon(c) == IF c \in Ghost THEN c ELSE canonical_name(c)
                 IN  [k \in {Canon(c) : c \in DOMAIN r} |->
                        r[CHOOSE c \in DOMAIN r : Canon(c) = k]]]]

\* pd.to_datetime(errors='coerce') of a 'YYYY' text: the year, 0 for NaT
DigitValue(c) ==
    CASE c = "0" -> 0 [] c = "1" -> 1 [] c = "2" -> 2 [] c = "3" -> 3 [] c = "4" -> 4
      [] c = "5" -> 5 [] c = "6" -> 6 [] c = "7" -> 7 [] c = "8" -> 8 [] c = "9" -> 9

to_datetime(v) ==
    IF notna(v) /\ Len(v) = 4 /\ isdigit(v)
    THEN 1000 * DigitValue(v[1]) + 100 * DigitValue(v[2])
         + 10 * DigitValue(v[3]) + DigitValue(v[4])
    ELSE 0

FechaMinima == 2023

\* variant: a failed fetch hands back an empty frame instead of stopping
load_data_empty_frame(collection) ==
    IF ~collection.reachable \/ empty(collection.df)
    THEN [stopped |-> FALSE, df |-> NoFrame]
    ELSE LET df == normalize_column_names(
                      IF HasCol(collection.df, "_id")
                      THEN DropColumn(collection.df, "_id") ELSE collection.df)
         IN  [stopped |-> FALSE,
              df |-> IF HasCol(df, "Fecha")
                     THEN Filter(df, [i \in 1..Len(df.rows) |->
                                        to_datetime(df.rows[i]["Fecha"]) >= FechaMinima])
                     ELSE df]

\* load_data: [stopped |-> the script was stopped (st.stop), df |-> the frame].
\* A collection is [reachable |-> BOOLEAN, df |-> its documents].  The numeric
\* columns Cantidad, Precio, Venta, Ganancia occur in no dictionary of the model.
load_data(collection) ==
    IF ~collection.reachable \/ empty(collection.df)
    THEN [stopped |-> TRUE, df |-> NoFrame]
    ELSE LET df == normalize_column_names(
                      IF HasCol(collection.df, "_id")
                      THEN DropColumn(collection.df, "_id") ELSE collection.df)
         IN  [stopped |-> FALSE,
              df |-> IF HasCol(df, "Fecha")
                     THEN Filter(df, [i \in 1..Len(df.rows) |->
                                        to_datetime(df.rows[i]["Fecha"]) >= FechaMinima])
                     ELSE df]

\* load_bot_dictionary, process_new_era_levels, process_ch_levels (module level):
\* load_data under try/except Exception; st.stop() is no Exception and passes through
load_bot_dictionary(collection) == load_data(collection)

(***************************************************************************)
(* DataCleaner.process_new_era_levels: the NEW ERA dictionary folded from  *)
(* the level files NE_L1.csv, NE_L2.csv, ...                               *)
(***************************************************************************)
\* the order of the characters of the model's texts by code point
CodeOrder ==
    <<" ", "-", "/", "0", "1", "2", "3", "4", "5", "6", "7", "8", "9">>
    \o UpperCase \o LowerCase

ord(c) == CHOOSE i \in 1..Len(CodeOrder) : CodeOrder[i] = c

\* a < b for Python str
RECURSIVE str_lt(_, _)
str_lt(a, b) ==
    IF Len(b) = 0 THEN FALSE
    ELSE IF Len(a) = 0 THEN TRUE
    ELSE IF a[1] = b[1] THEN str_lt(Tail(a), Tail(b))
    ELSE ord(a[1]) < ord(b[1])

\* the group keys of r sort before those of o: compared column by column
RECURSIVE keys_lt(_, _, _, _)
keys_lt(r, o, cols, i) ==
    IF i > Len(cols) THEN FALSE
    ELSE IF r[cols[i]] = o[cols[i]] THEN keys_lt(r, o, cols, i + 1)
    ELSE str_lt(r[cols[i]], o[cols[i]])

RECURSIVE SortGroups(_, _)
SortGroups(groups, cols) ==
    IF groups = {} THEN <<>>
    ELSE LET first == CHOOSE r \in groups :
                         \A o \in groups \ {r} : keys_lt(r, o, cols, 1)
         IN  <<first>> \o SortGroups(groups \ {first}, cols)

\* df.groupby(cols).size().reset_index(name='count').drop(columns=['count']): one
\* row for every combination of values of cols, in sorted order; groupby leaves
\* out (dropna=True) every row that has a null in one of cols.  The ghost field
\* _src of a group is the level of its file.
groupby_size(df, cols, level) ==
    LET kept   == {r \in Range(df.rows) : \A c \in Range(cols) : notna(r[c])}
        groups == {[c \in Range(cols) \cup Ghost |->
                      CASE c = "_src" -> level [] c = "_ref" -> 0 [] OTHER -> r[c]] :
                   r \in kept}
    IN  [cols |-> cols, rows |-> SortGroups(groups, cols)]

columnas_groupby ==
    <<"U_Estilo", "U_Silueta", "U_Team", "U_Descrip_Color", "U_Segmento",
      "U_Liga", "U_Coleccion_NE", "U_Genero", "U_Descripcion", "U_Temporalidad">>

columnas_comunes ==
    <<"U_Silueta", "U_Team", "U_Descrip_Color", "U_Segmento",
      "U_Liga", "U_Coleccion_NE", "U_Genero", "U_Descripcion", "U_Temporalidad">>

\* "Procesar cada DataFrame con groupby": the grouped frames of the files, a file
\* without any of the columns or without U_Estilo (KeyError, continue) left out
RECURSIVE grouped_dataframes(_, _)
grouped_dataframes(dataframes, i) ==
    IF i > Len(dataframes) THEN <<>>
    ELSE LET df == normalize_column_names(dataframes[i])
             columnas_disponibles == SelectSeq(columnas_groupby, LAMBDA c : HasCol(df, c))
         IN  (IF Len(columnas_disponibles) = 0 \/ ~HasCol(df, "U_Estilo")
              THEN <<>>
              ELSE <<groupby_size(df, columnas_disponibles, i)>>)
             \o grouped_dataframes(dataframes, i + 1)

\* "Completar valores faltantes": df_merged[col].fillna(df_merged[col_temp]) and
\* the drop of col_temp, for the columns of columnas_comunes both frames have
RECURSIVE completar_faltantes(_, _, _)
completar_faltantes(df_merged, df_final, i) ==
    IF i > Len(columnas_comunes) THEN df_merged
    ELSE LET col      == columnas_comunes[i]
             col_temp == col \o "_temp"
         IN  completar_faltantes(
               IF HasCol(df_final, col) /\ HasCol(df_merged, col_temp)
               THEN DropColumn(
                      SetColumn(df_merged, col,
                        [k \in 1..Len(df_merged.rows) |->
                           IF isna(df_merged.rows[k][col])
                           THEN df_merged.rows[k][col_temp]
                           ELSE df_merged.rows[k][col]]),
                      col_temp)
               ELSE df_merged,
               df_final, i + 1)

\* one turn of "Combinar L2-L7 en cascada": the left merge on U_Estilo with
\* suffixes ('', '_temp'), the fill, and the rows of df_temp whose U_Estilo the
\* accumulator does not have
combinar(df_final, df_temp) ==
    LET comunes   == {c \in Range(df_temp.cols) : c # "U_Estilo" /\ HasCol(df_final, c)}
        df_merged == completar_faltantes(
                       merge_left(df_final, Rename(df_temp, comunes, "_temp"),
                                  <<"U_Estilo">>),
                       df_final, 1)
        estilos   == {r["U_Estilo"] : r \in Range(df_final.rows)}
    IN  concat(df_merged,
               Filter(df_temp, [k \in 1..Len(df_temp.rows) |->
                                  df_temp.rows[k]["U_Estilo"] \notin estilos]))

RECURSIVE cascada(_, _, _)
cascada(df_final, grouped, i) ==
    IF i > Len(grouped) THEN df_final
    ELSE cascada(combinar(df_final, grouped[i]), grouped, i + 1)

\* what process_new_era_levels returns: the collection of the store when it
\* loads (load_data stops the script otherwise, which the bare except swallows),
\* has rows and has U_Estilo; else an empty frame when a level file is missing
\* or no file can be grouped; else the cascade of the grouped files without the
\* later rows of every U_Estilo.  `grouped` keeps the grouped frames.
process_levels(collection, files) ==
    LET loaded == load_data(collection)
    IN  IF ~loaded.stopped /\ ~empty(loaded.df) /\ HasCol(loaded.df, "U_Estilo")
        THEN [source |-> "mongo", grouped |-> <<>>,
              df |-> SetColumn(loaded.df, "U_Estilo",
                       [i \in 1..Len(loaded.df.rows) |->
                          astype_str(loaded.df.rows[i]["U_Estilo"])])]
        ELSE IF ~files.exist THEN [source |-> "no_files", grouped |-> <<>>, df |-> NoFrame]
        ELSE LET grouped == grouped_dataframes(files.dataframes, 1)
             IN  IF Len(grouped) = 0
                 THEN [source |-> "no_groups", grouped |-> grouped, df |-> NoFrame]
                 ELSE [source |-> "csv", grouped |-> grouped,
                       df |-> drop_duplicates(cascada(grouped[1], grouped, 2), "U_Estilo")]

(***************************************************************************)
(* convert_to_plantilla_format: the export of one row per record and       *)
(* attribute.  A row's ghost field _src is the position of the record in   *)
(* the frame converted.                                                    *)
(***************************************************************************)
column_mapping(bot) ==
    CASE bot = "ADOLFO" -> <<"u_estilo", "u_categoria", "u_genero", "u_familia",
                             "u_descrip_color">>
      [] bot = "BIRKEN" -> <<"u_estilo", "u_coleccion", "u_genero", "u_division",
                             "u_descripcion", "u_descrip_color">>
      [] bot = "NEW ERA" -> <<"U_Estilo", "U_Silueta", "U_Team", "U_Descrip_Color",
                              "U_Segmento", "U_Liga", "U_Coleccion_NE", "U_Genero",
                              "U_Descripcion", "U_Temporalidad", "U_Talla">>
      [] bot = "PB" -> <<"u_estilo", "u_genero", "u_prenda", "u_subprenda",
                         "u_temporalidad", "u_descripcion", "u_descrip_color">>
      [] bot = "SKECHERS" -> <<"U_Estilo", "U_Genero", "U_Suela", "U_Descrip_Color",
                                "U_Segmentacion_SK", "U_Division", "U_Temporalidad",
                                "U_Descripcion">>
      [] bot = "CH" -> <<"U_Estilo", "U_Genero", "U_Categoria", "U_Segmento",
                         "U_Descripcion", "U_Descrip_Color", "U_Segmentacion_SK",
                         "U_Zone", "U_Talla">>
      [] OTHER -> <<>>

\* pd.notna(valor) and str(valor).strip() != '' and str(valor).strip() != 'nan'
valor_no_vacio(valor) ==
    notna(valor) /\ strip(valor) # <<>> /\ strip(valor) # <<"n","a","n">>

plantilla_columns == <<"Pais", "DB", "COLUMNA", "Codigo_SAP", "VALOR">>

\* the dict appended for a record and a column; Pais is None
plantilla_row(row, k, columna) ==
    [c \in Range(plantilla_columns) \cup Ghost |->
        CASE c = "_src"       -> k
          [] c = "_ref"       -> 0
          [] c = "Pais"       -> NaN
          [] c = "DB"         -> IF "Empresa" \in DOMAIN row THEN row["Empresa"] ELSE <<>>
          [] c = "COLUMNA"    -> columna
          [] c = "Codigo_SAP" -> IF "ItemCode" \in DOMAIN row THEN row["ItemCode"] ELSE <<>>
          [] c = "VALOR"      -> strip(row[columna])]

\* the rows of record k: for columna in columns_to_process
RECURSIVE plantilla_of_row(_, _, _, _)
plantilla_of_row(df_cleaned, k, columns_to_process, j) ==
    IF j > Len(columns_to_process) THEN <<>>
    ELSE LET columna == columns_to_process[j]
         IN  (IF HasCol(df_cleaned, columna)
                 /\ valor_no_vacio(df_cleaned.rows[k][columna])
              THEN <<plantilla_row(df_cleaned.rows[k], k, columna)>>
              ELSE <<>>)
             \o plantilla_of_row(df_cleaned, k, columns_to_process, j + 1)

\* for index, row in df_cleaned.iterrows()
RECURSIVE plantilla_data(_, _, _)
plantilla_data(df_cleaned, bot, k) ==
    IF k > Len(df_cleaned.rows) THEN <<>>
    ELSE plantilla_of_row(df_cleaned, k, column_mapping(bot), 1)
         \o plantilla_data(df_cleaned, bot, k + 1)

\* pd.DataFrame(plantilla_data): a frame of an empty list has no columns
convert_to_plantilla_format(df_cleaned, bot) ==
    LET data == plantilla_data(df_cleaned, bot, 1)
    IN  [cols |-> IF Len(data) = 0 THEN <<>> ELSE plantilla_columns, rows |-> data]

(***************************************************************************)
(* The inputs the model draws: uploads (the dirty records of read_csv) and *)
(* collections (the reference documents of the store), per brand, written  *)
(* with the column names the brand's cleaner uses.                         *)
(***************************************************************************)
Brands == {"ADOLFO", "BIRKEN", "NEW ERA", "PB", "SKECHERS", "CH"}

\* at most this many records in an upload, and rows in a collection
MaxRecords == 2

MaxRefRows == 2

K1 == <<"k","1">>

K2 == <<"k","2">>

E1 == <<"e","1">>

E2 == <<"e","2">>

\* the value an upload gives a populated attribute
Own == <<"x">>

\* the value the j-th reference row gives a populated attribute
RefValue(j) == IF j = 1 THEN <<"y","1">> ELSE IF j = 2 THEN <<"y","2">> ELSE <<"y","3">>

Dodgers == <<"L","O","S"," ","A","N","G","E","L","E","S"," ","D","O","D","G","E","R","S">>

\* item names; read_csv reads an empty field as NaN, so no name is the empty text
N_A1     == <<"A","1","/","d","/","4","2","/","R">>          \* A1/d/42/R

N_1ABC   == <<"1","A","B","C","/","x">>                      \* 1ABC/x

N_A      == <<"A","/","x">>                                  \* A/x

N_AB     == <<"A","B","/","x">>                              \* AB/x

N_dash   == <<"-","1","/","x">>                              \* -1/x

N_A1N    == <<"A","1","N","O","D","E","L","I","M">>          \* A1NODELIM

N_nostyle == <<"/","x">>                                     \* /x

N_Ahalf  == <<"A",Half,"/","x">>                             \* A(1/2)/x

N_F1     == <<"F","1","/","d","/","4","2">>                  \* F1/d/42

N_W1     == <<"W","1","/","d">>                              \* W1/d

N_C1     == <<"C","1">>                                      \* C1

N_U1     == <<"U","1","/","d","/","4","0","/","B">>          \* U1/d/40/B

N_amer   == <<"A","1","/","A","m","e","r","i","c","a","n","a"," ","9",".","5"," ","d","/","4","2">>

N_spaces == <<"A","1","/"," ","d"," "," ","e"," ","/","4","2">>   \* 'A1/ d  e /42'

S_A1 == <<"A","1">>

S_F1 == <<"F","1">>

ItemNames(b) ==
    CASE b \in {"ADOLFO", "BIRKEN", "PB"} ->
           {NaN, N_A1, N_1ABC, N_A, N_AB, N_dash, N_A1N, N_nostyle, N_Ahalf}
      [] b = "SKECHERS" ->
           {NaN, N_A1, N_1ABC, N_A, N_AB, N_dash, N_A1N, N_nostyle, N_amer}
      [] b = "NEW ERA" ->
           {NaN, N_A1, N_1ABC, N_A, N_A1N, N_nostyle, N_spaces}
      [] b = "CH" ->
           {NaN, N_A1, N_F1, N_W1, N_C1, N_U1, N_A1N}

\* the attribute columns of a brand, as its cleaner names them
AttrCols(b) ==
    CASE b = "ADOLFO" -> <<"u_categoria", "u_genero", "u_familia", "u_estilo", "u_descrip_color">>
      [] b = "BIRKEN" -> <<"u_genero", "u_coleccion", "u_division",
                           "u_estilo", "u_descripcion", "u_descrip_color">>
      [] b = "PB" -> PbInvalid
      [] b = "SKECHERS" -> SkInvalid
      [] b = "NEW ERA" -> columnas_completar
      [] b = "CH" -> <<"U_Estilo">> \o ChFill

\* the join key of a brand's reference table
KeyCols(b) ==
    CASE b \in {"ADOLFO", "BIRKEN"} -> <<"ItemCode">>
      [] b \in {"PB", "SKECHERS"} -> <<"ItemCode", "Empresa">>
      [] b \in {"NEW ERA", "CH"} -> <<"U_Estilo">>

\* which attributes a record populates: none, all, or every second one
Flavors == {"none", "all", "odd", "even"}

Populated(flavor, idx) ==
    CASE flavor = "none" -> FALSE
      [] flavor = "all"  -> TRUE
      [] flavor = "odd"  -> idx % 2 = 1
      [] flavor = "even" -> idx % 2 = 0
      [] OTHER -> FALSE

IndexOf(seq, x) == CHOOSE i \in 1..Len(seq) : seq[i] = x

\* NEW ERA only: a record that names a team and leaves the league null, a record
\* that names a team and a league, and a reference document whose league is the
\* empty text
TeamFlavors == {"dodgers", "none_team", "dodgers_liga"}

AttrValue(b, flavor, col, value) ==
    CASE flavor = "dodgers" /\ col = "U_Team"    -> Dodgers
      [] flavor = "none_team" /\ col = "U_Team"  -> <<"N","O","N","E">>
      [] flavor = "dodgers_liga" /\ col = "U_Team" -> Dodgers
      [] flavor = "dodgers_liga" /\ col = "U_Liga" -> value
      [] flavor = "blank_liga" /\ col = "U_Team" -> Dodgers
      [] flavor = "blank_liga" /\ col = "U_Liga" -> <<>>
      [] flavor = "blank_liga_x" /\ col = "U_Team" -> value
      [] flavor = "blank_liga_x" /\ col = "U_Liga" -> <<>>
      [] OTHER -> IF Populated(flavor, IndexOf(AttrCols(b), col)) THEN value ELSE NaN

UploadCols(b) == <<"ItemCode", "ItemName", "Empresa">> \o AttrCols(b)

\* one record of an upload: rec = [name, code, flavor]
UploadRow(b, rec, i, cols) ==
    [c \in Range(cols) \cup Ghost |->
        CASE c = "_src"     -> i
          [] c = "_ref"     -> 0
          [] c = "ItemCode" -> rec.code
          [] c = "ItemName" -> rec.name
          [] c = "Empresa"  -> E1
          [] c = "Otro"     -> <<"o">>
          [] OTHER          -> AttrValue(b, rec.flavor, c, Own)]

Upload(b, recs, cols) ==
    [cols |-> cols,
     rows |-> [i \in 1..Len(recs) |-> UploadRow(b, recs[i], i, cols)]]

UploadFlavors(b) == IF b = "NEW ERA" THEN Flavors \cup TeamFlavors ELSE Flavors

\* the columns of a file that has no attribute column
BareCols == <<"ItemCode", "ItemName", "Empresa">>

\* uploads of one record in every variety, of several records that differ in
\* their names, one-record files without any attribute column, for NEW ERA a
\* file of a record without a league and a record with one, and for CH files
\* that lack the Empresa column as well and have a column the cleaner ignores
Uploads(b) ==
    {Upload(b, <<[name |-> n, code |-> c, flavor |-> f]>>, UploadCols(b)) :
        n \in ItemNames(b), c \in {K1, K2}, f \in UploadFlavors(b)}
    \cup
    UNION {{Upload(b, [i \in 1..k |-> [name |-> ns[i], code |-> K1, flavor |-> f]],
                   UploadCols(b)) :
              ns \in [1..k -> ItemNames(b)], f \in {"none", "all"}} :
           k \in 2..MaxRecords}
    \cup
    {Upload(b, <<[name |-> n, code |-> K1, flavor |-> "none"]>>, BareCols) :
        n \in ItemNames(b)}
    \cup
    (IF b = "NEW ERA"
     THEN {Upload(b, <<[name |-> N_A1, code |-> K1, flavor |-> "dodgers"],
                       [name |-> N_A1, code |-> K2, flavor |-> "dodgers_liga"]>>,
                  UploadCols(b))}
     ELSE {})
    \cup
    (IF b = "CH"
     THEN {Upload(b, <<[name |-> n, code |-> K1, flavor |-> "none"]>>,
                  <<"ItemCode", "ItemName", "Otro">>) : n \in {N_F1, N_A}}
     ELSE {})

\* the key values of the reference rows: the second one differs from every upload
\* in a key column for the brands joined on ItemCode and Empresa
RefKeys(b) ==
    CASE b \in {"ADOLFO", "BIRKEN"} -> {[ItemCode |-> K1], [ItemCode |-> K2]}
      [] b \in {"PB", "SKECHERS"}   -> {[ItemCode |-> K1, Empresa |-> E1],
                                        [ItemCode |-> K1, Empresa |-> E2]}
      [] b = "NEW ERA"              -> {[U_Estilo |-> S_A1], [U_Estilo |-> NaN]}
      [] b = "CH"                   -> {[U_Estilo |-> S_F1], [U_Estilo |-> S_A1]}

CollectionCols(b) ==
    <<"_id">> \o SelectSeq(KeyCols(b), LAMBDA c : c \notin Range(AttrCols(b)))
              \o AttrCols(b)

\* one document of a collection: doc = [key, flavor]
Document(b, doc, j, cols) ==
    [c \in Range(cols) \cup Ghost |->
        CASE c = "_src"  -> j
          [] c = "_ref"  -> 0
          [] c = "_id"   -> <<"i","d">>
          [] c = "Fecha" -> doc.fecha
          [] c = "Otro"  -> <<"o">>
          [] c \in DOMAIN doc.key -> doc.key[c]
          [] OTHER       -> AttrValue(b, doc.flavor, c, RefValue(j))]

Collection(b, docs, cols) ==
    [reachable |-> TRUE,
     df |-> [cols |-> cols,
             rows |-> [j \in 1..Len(docs) |-> Document(b, docs[j], j, cols)]]]

RefFlavors(b) ==
    IF b = "NEW ERA" THEN Flavors \cup {"dodgers", "blank_liga", "blank_liga_x"} ELSE Flavors

Y2022 == <<"2","0","2","2">>

Y2024 == <<"2","0","2","4">>

\* the key of the first reference row
FirstKey(b) ==
    CASE b \in {"ADOLFO", "BIRKEN"} -> [ItemCode |-> K1]
      [] b \in {"PB", "SKECHERS"}   -> [ItemCode |-> K1, Empresa |-> E1]
      [] b = "NEW ERA"              -> [U_Estilo |-> S_A1]
      [] b = "CH"                   -> [U_Estilo |-> S_F1]

\* collections whose documents lack fields the cleaner reads: the last attribute;
\* every attribute but the join key; every field the cleaner knows
LackingCols(b) ==
    {SubSeq(CollectionCols(b), 1, Len(CollectionCols(b)) - 1),
     <<"_id">> \o KeyCols(b),
     <<"_id", "Otro">>}

\* the collections a fetch may find: one document of every variety; up to
\* MaxRefRows documents of one variety (two may share a key); one dated document,
\* old, recent or undated; one document that lacks fields; for SKECHERS one
\* document whose ItemCode is null; no document; no store
Collections(b) ==
    {Collection(b, <<[key |-> k, flavor |-> f, fecha |-> NaN]>>, CollectionCols(b)) :
        k \in RefKeys(b), f \in RefFlavors(b)}
    \cup
    UNION {{Collection(b, [j \in 1..n |-> [key |-> ks[j], flavor |-> f, fecha |-> NaN]],
                       CollectionCols(b)) :
              ks \in [1..n -> RefKeys(b)], f \in {"all", "odd"}} :
           n \in 2..MaxRefRows}
    \cup
    {Collection(b, <<[key |-> FirstKey(b), flavor |-> "all", fecha |-> NaN]>>, cols) :
        cols \in LackingCols(b)}
    \cup
    {Collection(b, <<[key |-> FirstKey(b), flavor |-> "all",
                      fecha |-> f]>>,
                CollectionCols(b) \o <<"Fecha">>) : f \in {Y2022, Y2024, <<"?">>}}
    \cup
    (IF b = "SKECHERS"
     THEN {Collection(b, <<[key |-> [ItemCode |-> NaN, Empresa |-> E1], flavor |-> "all",
                            fecha |-> NaN]>>, CollectionCols(b))}
     ELSE {})
    \cup
    {[reachable |-> TRUE, df |-> NoFrame], [reachable |-> FALSE, df |-> NoFrame]}

\* the level files: at most MaxLevels files (the script reads seven) of at most
\* MaxLevelRows rows over two styles and two attributes
MaxLevels == 3

MaxLevelRows == 2

LevelCols == <<"U_Estilo", "U_Silueta", "U_Team">>

Digit(t) == <<"1", "2", "3", "4", "5", "6", "7", "8", "9">>[t]

\* a row of the file of level t: every attribute given, the second attribute
\* null, or every attribute given with a value that sorts first
LevelFlavors == {"all", "odd", "alt"}

LevelRow(t, rec, cols) ==
    [c \in Range(cols) \cup Ghost |->
        CASE c = "_src"     -> t
          [] c = "_ref"     -> 0
          [] c = "U_Estilo" -> rec.key
          [] c = "Otro"     -> <<"o">>
          [] OTHER          -> IF rec.flavor = "alt" THEN <<"k", Digit(t)>>
                               ELSE IF rec.flavor = "odd" /\ c = "U_Team" THEN NaN
                               ELSE <<"l", Digit(t)>>]

LevelFile(t, recs, cols) ==
    [cols |-> cols, rows |-> [j \in 1..Len(recs) |-> LevelRow(t, recs[j], cols)]]

LevelRecs == [key : {S_A1, S_F1}, flavor : LevelFlavors]

\* the files of the first two levels in every variety of up to MaxLevelRows rows,
\* or of one row without the second attribute, or without U_Estilo; the later
\* levels hold one complete row, no row, or lack U_Estilo
LevelFiles(t) ==
    IF t <= 2
    THEN UNION {{LevelFile(t, recs, LevelCols) : recs \in [1..n -> LevelRecs]} :
                n \in 0..MaxLevelRows}
         \cup {LevelFile(t, <<[key |-> k, flavor |-> "all"]>>, <<"U_Estilo", "U_Silueta">>) :
                 k \in {S_A1, S_F1}}
         \cup {LevelFile(t, <<[key |-> S_A1, flavor |-> "all"]>>, <<"U_Silueta", "Otro">>)}
    ELSE {LevelFile(t, <<[key |-> k, flavor |-> "all"]>>, LevelCols) : k \in {S_A1, S_F1}}
         \cup {LevelFile(t, <<>>, LevelCols),
               LevelFile(t, <<[key |-> S_A1, flavor |-> "all"]>>, <<"U_Silueta", "Otro">>)}

NoFiles == [exist |-> FALSE, dataframes |-> <<>>]

\* the files of the levels 1..n
RECURSIVE LevelSeqs(_)
LevelSeqs(n) ==
    IF n = 0 THEN {<<>>}
    ELSE {Append(fs, f) : fs \in LevelSeqs(n - 1), f \in LevelFiles(n)}

\* the folder of the level files: complete, or with a file missing
LevelFolders ==
    {[exist |-> TRUE, dataframes |-> fs] : fs \in LevelSeqs(MaxLevels)} \cup {NoFiles}

\* the NEW_ERA collection process_new_era_levels tries first: one document, one
\* document without U_Estilo, no document, no store
LevelCollections ==
    {Collection("NEW ERA", <<[key |-> FirstKey("NEW ERA"), flavor |-> "all", fecha |-> NaN]>>,
                CollectionCols("NEW ERA")),
     Collection("NEW ERA", <<[key |-> FirstKey("NEW ERA"), flavor |-> "all", fecha |-> NaN]>>,
                <<"_id", "Otro">>),
     [reachable |-> TRUE, df |-> NoFrame], [reachable |-> FALSE, df |-> NoFrame]}

(***************************************************************************)
(* One run of the script for an uploaded file (main, process_data).        *)
(*   bot_type   the brand selected                                         *)
(*   pc         "start": the DataCleaner was built (main), nothing loaded; *)
(*              "loaded": the brand's dictionary was fetched;              *)
(*              "stopped": the fetch stopped the script (st.stop);         *)
(*              "done": the brand's cleaner was called                     *)
(*   cleaner    the dictionaries of the DataCleaner, None until fetched    *)
(*   df_null    the frame of the uploaded file handed to the cleaner       *)
(*   out        what the call of the cleaner left behind                   *)
(***************************************************************************)
VARIABLES bot_type, pc, cleaner, df_null, out, levels, new_era_levels,
          store, fetches, df_plantilla

vars == <<bot_type, pc, cleaner, df_null, out, levels, new_era_levels,
          store, fetches, df_plantilla>>

None == [cols |-> <<>>, rows |-> <<>>, none |-> TRUE]

is_None(d) == "none" \in DOMAIN d

NoOutcome == Outcome("none", NoFrame, NoFrame, NoFrame, NoFrame, FALSE, None)

NotProcessed == [source |-> "none", grouped |-> <<>>, df |-> NoFrame]

Unreachable == [reachable |-> FALSE, df |-> NoFrame]

\* the attribute of the DataCleaner that holds the dictionary of a brand
AttrOf(b) ==
    CASE b = "ADOLFO"   -> "adolfo_dict"
      [] b = "BIRKEN"   -> "birken_dict"
      [] b = "PB"       -> "pb_dict"
      [] b = "SKECHERS" -> "skechers_dict"
      [] b = "NEW ERA"  -> "new_era_dict"
      [] b = "CH"       -> "ch_dict"

\* DataCleaner.__init__: every dictionary is None
DataCleaner ==
    [adolfo_dict |-> None, birken_dict |-> None, new_era_dict |-> None,
     pb_dict |-> None, skechers_dict |-> None, ch_dict |-> None]

\* main: a DataCleaner is built, a brand is selected; the store holds some
\* collection for the brand
Init ==
    /\ bot_type \in Brands
    /\ pc = "start"
    /\ cleaner = DataCleaner
    /\ df_null = NoFrame
    /\ out = NoOutcome
    /\ levels = NoFiles
    /\ new_era_levels = NotProcessed
    /\ \E collection \in Collections(bot_type) :
          store = [b \in Brands |-> IF b = bot_type THEN collection ELSE Unreachable]
    /\ fetches = [b \in Brands |-> 0]
    /\ df_plantilla = NoFrame

\* the calls of the getters are cut off after MaxFetches fetches of a collection
MaxFetches == 2

\* the brand is the one selected, or no brand is selected and every getter may run
AnyBrand == "any"

Selected(b) == bot_type \in {b, AnyBrand}

\* variant: the getter fetches on every call
lazy_load_always(b) ==
    LET r == load_bot_dictionary(store[b])
    IN  /\ fetches' = [fetches EXCEPT ![b] = @ + 1]
        /\ IF r.stopped
           THEN pc' = "stopped" /\ UNCHANGED cleaner
           ELSE pc' = "loaded" /\ cleaner' = [cleaner EXCEPT ![AttrOf(b)] = r.df]

\* variant: the getter returns without assigning the attribute
lazy_load_forgets(b) ==
    /\ pc' = "loaded"
    /\ UNCHANGED <<cleaner, fetches>>

\* a getter: if self.<attr> is None: self.<attr> = load...(collection)
lazy_load(b) ==
    LET r == load_bot_dictionary(store[b])
    IN  IF ~is_None(cleaner[AttrOf(b)])
        THEN pc' = "loaded" /\ UNCHANGED <<cleaner, fetches>>
        ELSE /\ fetches' = [fetches EXCEPT ![b] = @ + 1]
             /\ IF r.stopped
                THEN pc' = "stopped" /\ UNCHANGED cleaner
                ELSE pc' = "loaded" /\ cleaner' = [cleaner EXCEPT ![AttrOf(b)] = r.df]

get_adolfo_dict ==
    /\ pc \in {"start", "loaded"} /\ Selected("ADOLFO")
    /\ fetches["ADOLFO"] < MaxFetches
    /\ lazy_load("ADOLFO")
    /\ UNCHANGED <<bot_type, df_null, out, levels, new_era_levels, store, df_plantilla>>

get_birken_dict ==
    /\ pc \in {"start", "loaded"} /\ Selected("BIRKEN")
    /\ fetches["BIRKEN"] < MaxFetches
    /\ lazy_load("BIRKEN")
    /\ UNCHANGED <<bot_type, df_null, out, levels, new_era_levels, store, df_plantilla>>

get_pb_dict ==
    /\ pc \in {"start", "loaded"} /\ Selected("PB")
    /\ fetches["PB"] < MaxFetches
    /\ lazy_load("PB")
    /\ UNCHANGED <<bot_type, df_null, out, levels, new_era_levels, store, df_plantilla>>

get_skechers_dict ==
    /\ pc \in {"start", "loaded"} /\ Selected("SKECHERS")
    /\ fetches["SKECHERS"] < MaxFetches
    /\ lazy_load("SKECHERS")
    /\ UNCHANGED <<bot_type, df_null, out, levels, new_era_levels, store, df_plantilla>>

get_new_era_dict ==
    /\ pc \in {"start", "loaded"} /\ Selected("NEW ERA")
    /\ fetches["NEW ERA"] < MaxFetches
    /\ lazy_load("NEW ERA")
    /\ UNCHANGED <<bot_type, df_null, out, levels, new_era_levels, store, df_plantilla>>

get_ch_dict ==
    /\ pc \in {"start", "loaded"} /\ Selected("CH")
    /\ fetches["CH"] < MaxFetches
    /\ lazy_load("CH")
    /\ UNCHANGED <<bot_type, df_null, out, levels, new_era_levels, store, df_plantilla>>

\* process_data after the cleaner: the export is built from what the cleaner
\* returned; nothing is built when the cleaner raised
plantilla_of(result, bot) ==
    IF result.status \in {"ok", "no_dict", "no_columns"}
    THEN convert_to_plantilla_format(result.df_final, bot)
    ELSE NoFrame

\* process_data: read_csv, normalize_column_names, then the brand's cleaner and
\* convert_to_plantilla_format
process_adolfo ==
    /\ pc = "loaded" /\ bot_type = "ADOLFO"
    /\ \E uploaded_file \in Uploads("ADOLFO") :
          df_null' = normalize_column_names(uploaded_file)
    /\ out' = clean_adolfo_data(cleaner.adolfo_dict, df_null')
    /\ cleaner' = [cleaner EXCEPT !.adolfo_dict = out'.dict]
    /\ df_plantilla' = plantilla_of(out', "ADOLFO")
    /\ pc' = "done"
    /\ UNCHANGED <<bot_type, levels, new_era_levels, store, fetches>>

process_birken ==
    /\ pc = "loaded" /\ bot_type = "BIRKEN"
    /\ \E uploaded_file \in Uploads("BIRKEN") :
          df_null' = normalize_column_names(uploaded_file)
    /\ out' = clean_birken_data(cleaner.birken_dict, df_null')
    /\ cleaner' = [cleaner EXCEPT !.birken_dict = out'.dict]
    /\ df_plantilla' = plantilla_of(out', "BIRKEN")
    /\ pc' = "done"
    /\ UNCHANGED <<bot_type, levels, new_era_levels, store, fetches>>

process_pb ==
    /\ pc = "loaded" /\ bot_type = "PB"
    /\ \E uploaded_file \in Uploads("PB") :
          df_null' = normalize_column_names(uploaded_file)
    /\ out' = clean_pb_data(cleaner.pb_dict, df_null')
    /\ cleaner' = [cleaner EXCEPT !.pb_dict = out'.dict]
    /\ df_plantilla' = plantilla_of(out', "PB")
    /\ pc' = "done"
    /\ UNCHANGED <<bot_type, levels, new_era_levels, store, fetches>>

process_skechers ==
    /\ pc = "loaded" /\ bot_type = "SKECHERS"
    /\ \E uploaded_file \in Uploads("SKECHERS") :
          df_null' = normalize_column_names(uploaded_file)
    /\ out' = clean_skechers_data(cleaner.skechers_dict, df_null')
    /\ cleaner' = [cleaner EXCEPT !.skechers_dict = out'.dict]
    /\ df_plantilla' = plantilla_of(out', "SKECHERS")
    /\ pc' = "done"
    /\ UNCHANGED <<bot_type, levels, new_era_levels, store, fetches>>

process_new_era ==
    /\ pc = "loaded" /\ bot_type = "NEW ERA"
    /\ \E uploaded_file \in Uploads("NEW ERA") :
          df_null' = normalize_column_names(uploaded_file)
    /\ out' = clean_new_era_data(cleaner.new_era_dict, df_null')
    /\ cleaner' = [cleaner EXCEPT !.new_era_dict = out'.dict]
    /\ df_plantilla' = plantilla_of(out', "NEW ERA")
    /\ pc' = "done"
    /\ UNCHANGED <<bot_type, levels, new_era_levels, store, fetches>>

process_ch ==
    /\ pc = "loaded" /\ bot_type = "CH"
    /\ \E uploaded_file \in Uploads("CH") :
          df_null' = normalize_column_names(uploaded_file)
    /\ out' = clean_ch_data(cleaner.ch_dict, df_null')
    /\ cleaner' = [cleaner EXCEPT !.ch_dict = out'.dict]
    /\ df_plantilla' = plantilla_of(out', "CH")
    /\ pc' = "done"
    /\ UNCHANGED <<bot_type, levels, new_era_levels, store, fetches>>

Next ==
    \/ get_adolfo_dict
    \/ get_birken_dict
    \/ get_pb_dict
    \/ get_skechers_dict
    \/ get_new_era_dict
    \/ get_ch_dict
    \/ process_adolfo
    \/ process_birken
    \/ process_pb
    \/ process_skechers
    \/ process_new_era
    \/ process_ch

Spec == Init /\ [][Next]_vars

(***************************************************************************)
(* A call of DataCleaner.process_new_era_levels on a fresh DataCleaner.     *)
(*   levels          the folder of the level files                         *)
(*   new_era_levels  the frame the call returned, and where it came from   *)
(***************************************************************************)
InitLevels ==
    /\ bot_type = "NEW ERA"
    /\ pc = "start"
    /\ cleaner = DataCleaner
    /\ df_null = NoFrame
    /\ out = NoOutcome
    /\ levels \in LevelFolders
    /\ new_era_levels = NotProcessed
    /\ \E collection \in LevelCollections :
          store = [b \in Brands |-> IF b = "NEW ERA" THEN collection ELSE Unreachable]
    /\ fetches = [b \in Brands |-> 0]
    /\ df_plantilla = NoFrame

process_new_era_levels ==
    /\ new_era_levels.source = "none"
    /\ new_era_levels' = process_levels(store["NEW ERA"], levels)
    /\ fetches' = [fetches EXCEPT !["NEW ERA"] = @ + 1]
    /\ UNCHANGED <<bot_type, pc, cleaner, df_null, out, levels, store, df_plantilla>>

NextLevels == process_new_era_levels

SpecLevels == InitLevels /\ [][NextLevels]_vars

(***************************************************************************)
(* The loaders of one DataCleaner called in any order: the six getters,    *)
(* load_embedded_dictionaries and the method process_ch_levels.  No brand  *)
(* is selected; pc is "stopped" once a fetch stopped the script.           *)
(***************************************************************************)
\* the store of a brand: a collection of one document, or out of reach
CacheStores ==
    [Brands -> {"one", "unreachable"}]

StoreOf(choice) ==
    [b \in Brands |->
        IF choice[b] = "one"
        THEN Collection(b, <<[key |-> FirstKey(b), flavor |-> "odd", fecha |-> NaN]>>,
                        CollectionCols(b))
        ELSE Unreachable]

InitCache ==
    /\ bot_type = AnyBrand
    /\ pc = "start"
    /\ cleaner = DataCleaner
    /\ df_null = NoFrame
    /\ out = NoOutcome
    /\ levels = NoFiles
    /\ new_era_levels = NotProcessed
    /\ \E choice \in CacheStores : store = StoreOf(choice)
    /\ fetches = [b \in Brands |-> 0]
    /\ df_plantilla = NoFrame

embedded == <<"ADOLFO", "BIRKEN", "PB", "SKECHERS">>

\* the assignments of load_embedded_dictionaries from the i-th on: self.<attr> =
\* load_data(...) one after the other; st.stop() of load_data is no Exception,
\* so the except branch does not run and the assignments made so far stay
RECURSIVE load_embedded(_, _, _)
load_embedded(self, count, i) ==
    IF i > Len(embedded) THEN [stopped |-> FALSE, self |-> self, count |-> count]
    ELSE LET b == embedded[i]
             r == load_data(store[b])
             n == [count EXCEPT ![b] = @ + 1]
         IN  IF r.stopped THEN [stopped |-> TRUE, self |-> self, count |-> n]
             ELSE load_embedded([self EXCEPT ![AttrOf(b)] = r.df], n, i + 1)

load_embedded_dictionaries ==
    /\ pc \in {"start", "loaded"}
    /\ \A i \in 1..Len(embedded) : fetches[embedded[i]] < MaxFetches
    /\ LET r == load_embedded(cleaner, fetches, 1)
       IN  /\ cleaner' = r.self
           /\ fetches' = r.count
           /\ pc' = IF r.stopped THEN "stopped" ELSE "loaded"
    /\ UNCHANGED <<bot_type, df_null, out, levels, new_era_levels, store, df_plantilla>>

\* the method DataCleaner.process_ch_levels: load_data("CH"), U_Estilo as text
process_ch_levels ==
    /\ pc \in {"start", "loaded"}
    /\ fetches["CH"] < MaxFetches
    /\ LET r == load_data(store["CH"])
       IN  IF r.stopped THEN pc' = "stopped" /\ UNCHANGED cleaner
           ELSE /\ pc' = "loaded"
                /\ cleaner' = [cleaner EXCEPT !.ch_dict =
                      IF HasCol(r.df, "U_Estilo")
                      THEN SetColumn(r.df, "U_Estilo",
                             [i \in 1..Len(r.df.rows) |->
                                astype_str(r.df.rows[i]["U_Estilo"])])
                      ELSE r.df]
    /\ fetches' = [fetches EXCEPT !["CH"] = @ + 1]
    /\ UNCHANGED <<bot_type, df_null, out, levels, new_era_levels, store, df_plantilla>>

NextCache ==
    \/ get_adolfo_dict
    \/ get_birken_dict
    \/ get_pb_dict
    \/ get_skechers_dict
    \/ get_new_era_dict
    \/ get_ch_dict
    \/ load_embedded_dictionaries
    \/ process_ch_levels

SpecCache == InitCache /\ [][NextCache]_vars
(***************************************************************************)
(* Properties.  The rows of a frame carry two ghost fields: _src, the      *)
(* position of the input record (or reference document) the row comes      *)
(* from, and _ref, the reference document a join attached to it (0: none). *)
(***************************************************************************)
DictOf(b) ==
    CASE b = "ADOLFO" -> cleaner.adolfo_dict
      [] b = "BIRKEN" -> cleaner.birken_dict
      [] b = "PB" -> cleaner.pb_dict
      [] b = "SKECHERS" -> cleaner.skechers_dict
      [] b = "NEW ERA" -> cleaner.new_era_dict
      [] b = "CH" -> cleaner.ch_dict

\* the cleaner was called with a dictionary that holds rows
CalledWithDict == pc = "done" /\ ~empty(DictOf(bot_type))

\* the cleaner was called and returned the enriched frame
ReturnedEnriched == pc = "done" /\ out.status = "ok"

\* the cleaner was called and split its input
Partitioned == pc = "done" /\ out.partitioned

Records == 1..Len(df_null.rows)

OutputRows == Range(out.df_final.rows)

ValidSet == {r["_src"] : r \in Range(out.df_valido.rows)}

InvalidSet == {r["_src"] : r \in Range(out.df_invalido.rows)}

ItemNameOf(i) == df_null.rows[i]["ItemName"]

\* the leading segment of a non-null name
LeadingSegment(name) == split(name, "/")[1]

InputValue(i, c) == IF HasCol(df_null, c) THEN df_null.rows[i][c] ELSE NaN

ReferenceRow(j) == CHOOSE d \in Range(DictOf(bot_type).rows) : d["_src"] = j

\* the attributes a cleaner takes from the reference table for every record,
\* valid or not (the columns derived from ItemName are not among them)
EnrichmentAttrs(b) ==
    CASE b = "ADOLFO" -> {"u_categoria", "u_genero", "u_familia"}
      [] b = "BIRKEN" -> {"u_coleccion", "u_genero", "u_division"}
      [] b = "PB" -> Range(PbValid)
      [] b = "SKECHERS" -> Range(SkValid)
      [] b = "NEW ERA" -> Range(columnas_completar) \ {"U_Estilo", "U_Descripcion"}
      [] b = "CH" -> Range(ChFill)

StyleColumn(b) ==
    IF b \in {"ADOLFO", "BIRKEN", "PB"} THEN "u_estilo" ELSE "U_Estilo"

\* C1: whenever a cleaner returns the enriched frame, every output record carries,
\* for every enrichment attribute, the value of its input record if that value is
\* not null, whatever the matching reference row holds.
C1_FillNeverOverrides ==
    ReturnedEnriched =>
        \A r \in OutputRows : \A c \in EnrichmentAttrs(bot_type) :
            notna(InputValue(r["_src"], c)) =>
                HasCol(out.df_final, c) /\ r[c] = InputValue(r["_src"], c)

\* C2: for every cleaner called with a non-empty dictionary, every record is in
\* the output, and every enrichment attribute that is null in the input record
\* has the value of the reference row joined to the record, or stays null when no
\* reference row matches; nothing else of the record decides it.
C2_NullFilledFromReference ==
    CalledWithDict =>
        /\ out.status = "ok"
        /\ \A i \in Records : \E r \in OutputRows : r["_src"] = i
        /\ \A r \in OutputRows : \A c \in EnrichmentAttrs(bot_type) :
              isna(InputValue(r["_src"], c)) =>
                  /\ HasCol(out.df_final, c)
                  /\ r[c] = IF r["_ref"] = 0 THEN NaN ELSE ReferenceRow(r["_ref"])[c]

\* C3: whenever a cleaner returns the enriched frame, every input record appears
\* exactly once in it, also when several reference rows share a join key: the
\* output has as many rows as the input.
C3_EveryRecordExactlyOnce ==
    ReturnedEnriched =>
        /\ Len(out.df_final.rows) = Len(df_null.rows)
        /\ \A i \in Records :
              Cardinality({k \in 1..Len(out.df_final.rows) :
                              out.df_final.rows[k]["_src"] = i}) = 1

LetraNumero(seg) == Len(seg) >= 2 /\ c_isalpha(seg[1]) /\ c_isnumeric(seg[2])

\* C5: in clean_adolfo_data and clean_birken_data a record whose ItemName contains
\* '/' is valid if and only if its leading segment has at least 2 characters, the
\* first alphabetic and the second numeric ('1ABC/...' and 'A/...' are invalid).
C5_LetterNumberGrammar ==
    (Partitioned /\ bot_type \in {"ADOLFO", "BIRKEN"}) =>
        \A i \in Records :
            (notna(ItemNameOf(i)) /\ contains(ItemNameOf(i), "/")) =>
                (i \in ValidSet <=> LetraNumero(LeadingSegment(ItemNameOf(i))))

\* the grammar letter + digit of a leading segment
LetraDigito(seg) == Len(seg) >= 2 /\ c_isalpha(seg[1]) /\ c_isdigit(seg[2])

\* C6: the validator of clean_pb_data answers valid if and only if the leading
\* segment of ItemName has at least 2 characters, the first alphabetic and the
\* second a digit: 'A1BC' is valid, '1ABC', 'A' and '' are not; clean_pb_data
\* splits its records by that answer.
C6_PbValidator ==
    /\ validar_y_extraer_u_estilo(<<"A","1","B","C">>).es_valido
    /\ ~validar_y_extraer_u_estilo(<<"1","A","B","C">>).es_valido
    /\ ~validar_y_extraer_u_estilo(<<"A">>).es_valido
    /\ ~validar_y_extraer_u_estilo(<<>>).es_valido
    /\ (Partitioned /\ bot_type = "PB") =>
          \A i \in Records :
             /\ i \in ValidSet <=>
                  (notna(ItemNameOf(i)) /\ LetraDigito(LeadingSegment(ItemNameOf(i))))
             /\ validar_y_extraer_u_estilo(ItemNameOf(i)).es_valido <=> i \in ValidSet

\* clean_pb_data put a letter + digit name in the valid set and a name whose
\* second character is numeric but no digit in the invalid set
C6_Witness ==
    /\ Partitioned /\ bot_type = "PB"
    /\ \E i \in Records : ItemNameOf(i) = N_A1 /\ i \in ValidSet
    /\ \E i \in Records : ItemNameOf(i) = N_Ahalf /\ i \in InvalidSet

\* the grammar alphanumeric first character of a leading segment
AlnumPrimero(seg) == Len(seg) >= 2 /\ c_isalnum(seg[1])

\* C7, as stated: in clean_skechers_data a record is valid if and only if the
\* leading segment of its ItemName has at least 2 characters and its first
\* character is alphanumeric.
C7_AlnumGrammarOnly ==
    (Partitioned /\ bot_type = "SKECHERS") =>
        \A i \in Records :
            i \in ValidSet <=>
                (notna(ItemNameOf(i)) /\ AlnumPrimero(LeadingSegment(ItemNameOf(i))))

\* C7, amended: in every call of clean_skechers_data that splits its records, a
\* record is valid if and only if its ItemName contains '/' and the leading
\* segment has at least 2 characters, the first of them alphanumeric.
C7_SlashAndAlnumGrammar ==
    (Partitioned /\ bot_type = "SKECHERS") =>
        \A i \in Records :
            i \in ValidSet <=>
                /\ notna(ItemNameOf(i))
                /\ contains(ItemNameOf(i), "/")
                /\ AlnumPrimero(LeadingSegment(ItemNameOf(i)))

\* clean_skechers_data put '1ABC/x' in the valid set and 'A1NODELIM' in the
\* invalid set
C7_Witness ==
    /\ Partitioned /\ bot_type = "SKECHERS"
    /\ \E i \in Records : ItemNameOf(i) = N_1ABC /\ i \in ValidSet
    /\ \E i \in Records : ItemNameOf(i) = N_A1N /\ i \in InvalidSet

\* C8: in ADOLFO, BIRKEN, PB and SKECHERS a record whose ItemName contains no '/'
\* has the whole name as its style-code candidate and is in the invalid set,
\* whatever the name starts with.
C8_NoSlashIsInvalid ==
    Partitioned =>
        \A i \in Records :
            (notna(ItemNameOf(i)) /\ ~contains(ItemNameOf(i), "/")) =>
                /\ out.df_null.rows[i][StyleColumn(bot_type)] = ItemNameOf(i)
                /\ i \in InvalidSet

\* C9: a cleaner called with a record whose ItemName is null raises no error on
\* the name (AttributeError, TypeError), and when it splits its records the
\* record is in the invalid set.
C9_NullNameNeverRaises ==
    (CalledWithDict /\ \E i \in Records : isna(ItemNameOf(i))) =>
        /\ out.status \notin {"AttributeError", "TypeError"}
        /\ out.partitioned =>
              \A i \in Records : isna(ItemNameOf(i)) => i \in InvalidSet

Segment(name, k) ==
    LET parts == split(name, "/")
    IN  IF Len(parts) > k THEN parts[k + 1] ELSE NaN

\* the fields a brand derives from the name: <<column, segment>>
DerivedFields(b) ==
    CASE b = "ADOLFO" -> {<<"u_estilo", 0>>, <<"u_descrip_color", 3>>}
      [] b \in {"BIRKEN", "PB"} ->
           {<<"u_estilo", 0>>, <<"u_descripcion", 1>>, <<"u_descrip_color", 3>>}
      [] b = "SKECHERS" -> {<<"U_Estilo", 0>>, <<"U_Descripcion", 1>>}
      [] b = "NEW ERA" -> {<<"U_Estilo", 0>>, <<"U_Descripcion", 1>>, <<"U_Talla", 2>>}
      [] b = "CH" -> {<<"U_Estilo", 0>>, <<"U_Talla", 2>>}

\* the value a derived field may have: the segment, or for the NEW ERA description
\* the segment with its runs of spaces collapsed and trimmed
IsSegment(b, f, value, name) ==
    \/ value = Segment(name, f[2])
    \/ /\ b = "NEW ERA" /\ f[1] = "U_Descripcion" /\ notna(Segment(name, 1))
       /\ value = strip(collapse_spaces(Segment(name, 1)))

\* C11: when every record has a name, the fields a brand derives from the name
\* s0/s1/s2/s3 of a valid record are style = s0, description = s1, size = s2,
\* color = s3; a field whose segment is missing is null and the call does not
\* fail on it (NEW ERA and CH derive the fields of every record).
C11_SegmentsParsed ==
    (CalledWithDict /\ \A i \in Records : notna(ItemNameOf(i))) =>
        /\ bot_type \in {"NEW ERA", "CH"} =>
              /\ out.status \notin {"AttributeError", "TypeError"}
              /\ \A i \in Records : \A f \in DerivedFields(bot_type) :
                    IsSegment(bot_type, f, out.df_null.rows[i][f[1]], ItemNameOf(i))
        /\ out.partitioned =>
              \A r \in Range(out.df_valido.rows) : \A f \in DerivedFields(bot_type) :
                  HasCol(out.df_valido, f[1]) =>
                      IsSegment(bot_type, f, r[f[1]], r["ItemName"])
LacksRequiredColumns ==
    /\ CalledWithDict
    /\ \/ ~HasCols(DictOf(bot_type), KeyCols(bot_type))
       \/ \A c \in EnrichmentAttrs(bot_type) : ~HasCol(DictOf(bot_type), c)

\* C13: a cleaner called with a non-empty reference table that lacks the join key
\* or every enrichment column reports the error (the message of
\* clean_new_era_data, or the KeyError process_data reports) and enriches nothing:
\* the frame handed back and the caller's frame are the input, no column added
\* or changed.  (Calls that fail on the names themselves are left aside.)
C13_MissingColumnsNoPartialEnrichment ==
    (LacksRequiredColumns /\ out.status \notin {"AttributeError", "TypeError"}) =>
        /\ out.status \in {"no_columns", "KeyError"}
        /\ out.df_null = df_null
        /\ out.df_final \in {NoFrame, df_null}
\* C14: an enrichment column absent from the input records or from the reference
\* table counts as a column of nulls: the call completes, the column is in the
\* output, an absent input column is filled from the joined reference row, and an
\* absent reference column fills nothing (the record keeps its own value).
\* (The reference table has its join key; calls that fail on the names are left
\* aside.)
C14_MissingColumnIsAllNull ==
    (/\ CalledWithDict
     /\ HasCols(DictOf(bot_type), KeyCols(bot_type))
     /\ out.status \notin {"AttributeError", "TypeError"}) =>
        \A c \in EnrichmentAttrs(bot_type) :
            (~HasCol(df_null, c) \/ ~HasCol(DictOf(bot_type), c)) =>
                /\ out.status = "ok"
                /\ HasCol(out.df_final, c)
                /\ \A r \in OutputRows :
                      r[c] = IF /\ HasCol(DictOf(bot_type), c)
                                /\ r["_ref"] # 0
                                /\ isna(InputValue(r["_src"], c))
                             THEN ReferenceRow(r["_ref"])[c]
                             ELSE InputValue(r["_src"], c)
\* the cleaner process_data calls for a brand
CleanerOf(b, dict, df) ==
    CASE b = "ADOLFO" -> clean_adolfo_data(dict, df)
      [] b = "BIRKEN" -> clean_birken_data(dict, df)
      [] b = "PB" -> clean_pb_data(dict, df)
      [] b = "SKECHERS" -> clean_skechers_data(dict, df)
      [] b = "NEW ERA" -> clean_new_era_data(dict, df)
      [] b = "CH" -> clean_ch_data(dict, df)

\* the records of a frame, as values by column
RecordSet(df) == {[c \in Range(df.cols) |-> r[c]] : r \in Range(df.rows)}

\* the cleaner run once more, on the frame it returned
RunAgain == CleanerOf(bot_type, out.dict, normalize_column_names(out.df_final))

\* C15: whenever a cleaner returns the enriched frame, running it on that frame
\* with the same reference table returns the same record set: as many records,
\* and for every record and attribute the same value.
C15_CleanerIdempotent ==
    ReturnedEnriched =>
        /\ RunAgain.status = "ok"
        /\ Len(RunAgain.df_final.rows) = Len(out.df_final.rows)
        /\ RecordSet(RunAgain.df_final) = RecordSet(out.df_final)
\* the reference rows that precede row j and carry the same join key
EarlierSameKey(j) ==
    {i \in 1..(j - 1) : \A k \in Range(KeyCols(bot_type)) :
                             ReferenceRow(i)[k] = ReferenceRow(j)[k]}

\* C16: in every cleaner the reference row joined to an output record is the
\* first reference row of its join key: no output record carries the values of
\* a reference row that has an earlier row with the same key.
C16_FirstReferenceRowOnly ==
    ReturnedEnriched =>
        \A r \in OutputRows : r["_ref"] # 0 => EarlierSameKey(r["_ref"]) = {}
\* the frame clean_new_era_data hands to the league resolver
BeforeResolver == completar_new_era(DictOf("NEW ERA"), df_null).df_final

BlankLiga(row) == isna(row["U_Liga"]) \/ row["U_Liga"] = <<>>

NewEraReturned == bot_type = "NEW ERA" /\ ReturnedEnriched

\* C17: the league resolver of clean_new_era_data keeps the records and the
\* columns of the frame it receives, and changes a value only in column U_Liga
\* of a record whose U_Liga is null or '' after the main join.
C17_ResolverFrame ==
    NewEraReturned =>
        /\ out.df_final.cols = BeforeResolver.cols
        /\ Len(out.df_final.rows) = Len(BeforeResolver.rows)
        /\ \A k \in 1..Len(BeforeResolver.rows) :
             \A c \in Range(BeforeResolver.cols) \cup {"_src", "_ref"} :
                (out.df_final.rows[k][c] # BeforeResolver.rows[k][c])
                    => (c = "U_Liga" /\ BlankLiga(BeforeResolver.rows[k]))

\* a record with a league and a licensed team keeps its league, next to a
\* record whose blank league the resolver fills
C17_Witness ==
    /\ NewEraReturned
    /\ HasCol(BeforeResolver, "U_Liga") /\ HasCol(BeforeResolver, "U_Team")
    /\ \E k \in 1..Len(BeforeResolver.rows) :
          /\ ~BlankLiga(BeforeResolver.rows[k])
          /\ dict_has(team_licenses, BeforeResolver.rows[k]["U_Team"])
          /\ BeforeResolver.rows[k]["U_Liga"] # dict_get(team_licenses, BeforeResolver.rows[k]["U_Team"])
    /\ \E k \in 1..Len(BeforeResolver.rows) :
          /\ BlankLiga(BeforeResolver.rows[k])
          /\ out.df_final.rows[k]["U_Liga"] # BeforeResolver.rows[k]["U_Liga"]
\* the league the two maps give a team, primary map first; otherwise the value
\* given for a team neither map knows
LeagueOf(team, otherwise) ==
    IF dict_has(team_licenses, team) THEN dict_get(team_licenses, team)
    ELSE IF dict_has(team_licenses_extended, team)
         THEN dict_get(team_licenses_extended, team)
         ELSE otherwise

ResolverRan ==
    NewEraReturned /\ HasCol(BeforeResolver, "U_Liga") /\ HasCol(BeforeResolver, "U_Team")

BlankRecords == {k \in 1..Len(BeforeResolver.rows) : BlankLiga(BeforeResolver.rows[k])}

\* C18 as stated: a NEW ERA record whose league is blank after the main join has
\* afterwards the primary map's league of its team, else the extended map's, and
\* is null when neither map has the team.
C18_LeagueLookupElseNull ==
    ResolverRan =>
        \A k \in BlankRecords :
            out.df_final.rows[k]["U_Liga"] = LeagueOf(BeforeResolver.rows[k]["U_Team"], NaN)

\* C18: a NEW ERA record whose league is blank (null or '') after the main join
\* has afterwards the primary map's league of its team, else the extended map's,
\* and keeps its blank value, null or '', when neither map has the team; a team
\* in both maps gets the primary map's league, and 'LOS ANGELES DODGERS' gets 'MLB'.
C18_LeagueLookup ==
    ResolverRan =>
        \A k \in BlankRecords :
            LET team == BeforeResolver.rows[k]["U_Team"]
                liga == out.df_final.rows[k]["U_Liga"]
            IN  /\ liga = LeagueOf(team, BeforeResolver.rows[k]["U_Liga"])
                /\ (dict_has(team_licenses, team) /\ dict_has(team_licenses_extended, team))
                      => liga = dict_get(team_licenses, team)
                /\ team = Dodgers => liga = <<"M","L","B">>

\* one run resolves the Dodgers to 'MLB' or a team of both maps to the primary
\* map's league, and leaves a blank league of an unknown team as it was
C18_Witness ==
    /\ ResolverRan
    /\ \E k \in BlankRecords :
          LET team == BeforeResolver.rows[k]["U_Team"]
          IN  \/ team = Dodgers /\ out.df_final.rows[k]["U_Liga"] = <<"M","L","B">>
              \/ /\ dict_has(team_licenses_extended, team)
                 /\ dict_get(team_licenses_extended, team) # dict_get(team_licenses, team)
                 /\ out.df_final.rows[k]["U_Liga"] = dict_get(team_licenses, team)
\* process_new_era_levels returned the cascade of the level files
LevelsMerged == new_era_levels.source = "csv"

MergedRows == Range(new_era_levels.df.rows)

\* the rows of the level-t file for a key
LevelRowsOf(t, key) ==
    LET df == normalize_column_names(levels.dataframes[t])
    IN  IF HasCol(df, "U_Estilo")
        THEN {r \in Range(df.rows) : r["U_Estilo"] = key}
        ELSE {}

\* the non-null values the level-t file has for a key and an attribute
LevelValues(t, key, attr) ==
    IF HasCol(normalize_column_names(levels.dataframes[t]), attr)
    THEN {r[attr] : r \in {x \in LevelRowsOf(t, key) : notna(x[attr])}}
    ELSE {}

LevelsWithValue(key, attr) ==
    {t \in 1..Len(levels.dataframes) : LevelValues(t, key, attr) # {}}

LevelsWithKey(key) == {t \in 1..Len(levels.dataframes) : LevelRowsOf(t, key) # {}}

Earliest(ts) == CHOOSE t \in ts : \A u \in ts : t <= u

LevelKeys ==
    UNION {{r["U_Estilo"] : r \in LevelRowsAll} :
           LevelRowsAll \in {UNION {LevelRowsOf(t, k) : k \in {S_A1, S_F1}} :
                               t \in 1..Len(levels.dataframes)}}

\* C19: in the table process_new_era_levels folds from the level files, the
\* value of every attribute of every key is a value of the earliest level file
\* in which the key has a non-null value for the attribute, and is null when
\* no level file has one.
C19_EarliestLevelWins ==
    LevelsMerged =>
        \A r \in MergedRows :
            \A attr \in Range(new_era_levels.df.cols) \ {"U_Estilo"} :
                LET ts == LevelsWithValue(r["U_Estilo"], attr)
                IN  IF ts = {} THEN isna(r[attr])
                    ELSE r[attr] \in LevelValues(Earliest(ts), r["U_Estilo"], attr)

\* C20: the table process_new_era_levels folds from the level files has one row
\* for every key of a level file and no two rows of one key, and the row of a
\* key carries the values of the first level file that has the key.
C20_OneRowPerKey ==
    LevelsMerged =>
        /\ {r["U_Estilo"] : r \in MergedRows} = LevelKeys
        /\ \A i, j \in 1..Len(new_era_levels.df.rows) :
              new_era_levels.df.rows[i]["U_Estilo"] = new_era_levels.df.rows[j]["U_Estilo"]
                  => i = j
        /\ \A r \in MergedRows :
              LET k == Earliest(LevelsWithKey(r["U_Estilo"]))
              IN  \A attr \in Range(new_era_levels.df.cols) \ {"U_Estilo"} :
                     LevelValues(k, r["U_Estilo"], attr) # {}
                         => r[attr] \in LevelValues(k, r["U_Estilo"], attr)
ChReturned == bot_type = "CH" /\ ReturnedEnriched

\* C21: the frame clean_ch_data returns after enriching has exactly the columns
\* ItemName, ItemCode, Empresa, U_Estilo, U_Genero, U_Categoria, U_Segmento,
\* U_Descripcion, U_Descrip_Color, U_Segmentacion_SK, U_Zone, U_Talla, in this
\* order, and a column of the list that the data lacks is null in every record.
C21_ChOutputColumns ==
    ChReturned =>
        /\ out.df_final.cols =
              <<"ItemName", "ItemCode", "Empresa", "U_Estilo", "U_Genero", "U_Categoria",
                "U_Segmento", "U_Descripcion", "U_Descrip_Color", "U_Segmentacion_SK",
                "U_Zone", "U_Talla">>
        /\ \A r \in OutputRows :
              /\ DOMAIN r = Range(out.df_final.cols) \cup Ghost
              /\ \A c \in {"ItemCode", "Empresa"} : ~HasCol(df_null, c) => isna(r[c])

\* a file without the Empresa column and with a column that is not in the list
\* is cleaned
C21_Witness ==
    /\ ChReturned
    /\ ~HasCol(df_null, "Empresa") /\ HasCol(df_null, "Otro")
    /\ \E r \in OutputRows : isna(r["Empresa"]) /\ notna(r["ItemCode"])
(***************************************************************************)
(* The export of convert_to_plantilla_format.                              *)
(***************************************************************************)
\* process_data converted what the cleaner returned
Exported == pc = "done" /\ out.status \in {"ok", "no_dict", "no_columns"}

\* the (record, attribute) pairs of the frame converted whose value is neither
\* null nor blank
QualifyingPairs ==
    {<<k, columna>> \in (1..Len(out.df_final.rows)) \X Range(column_mapping(bot_type)) :
        /\ HasCol(out.df_final, columna)
        /\ notna(out.df_final.rows[k][columna])
        /\ strip(out.df_final.rows[k][columna]) # <<>>}

PlantillaRowsOf(pair) ==
    {j \in 1..Len(df_plantilla.rows) :
        /\ df_plantilla.rows[j]["_src"] = pair[1]
        /\ df_plantilla.rows[j]["COLUMNA"] = pair[2]}

\* C22: convert_to_plantilla_format emits exactly one row per (record, brand
\* attribute) whose value is neither null nor blank and no other row; every
\* export has exactly the columns Pais, DB, COLUMNA, Codigo_SAP, VALOR, also
\* when no row qualifies; Pais is null, DB the record's Empresa, COLUMNA the
\* attribute, Codigo_SAP the record's ItemCode and VALOR the value.
C22_PlantillaRows ==
    Exported =>
        /\ df_plantilla.cols = <<"Pais", "DB", "COLUMNA", "Codigo_SAP", "VALOR">>
        /\ \A pair \in QualifyingPairs : Cardinality(PlantillaRowsOf(pair)) = 1
        /\ \A j \in 1..Len(df_plantilla.rows) :
              LET r == df_plantilla.rows[j]
                  k == r["_src"]
              IN  /\ <<k, r["COLUMNA"]>> \in QualifyingPairs
                  /\ isna(r["Pais"])
                  /\ HasCol(out.df_final, "Empresa")
                        => r["DB"] = out.df_final.rows[k]["Empresa"]
                  /\ HasCol(out.df_final, "ItemCode")
                        => r["Codigo_SAP"] = out.df_final.rows[k]["ItemCode"]
                  /\ r["VALOR"] = out.df_final.rows[k][r["COLUMNA"]]

(***************************************************************************)
(* Fetches that fail.                                                      *)
(***************************************************************************)
\* the store of the brand is out of reach or its collection has no document
FetchFails(b) == ~store[b].reachable \/ Len(store[b].df.rows) = 0

\* C23: when the store is unreachable or the collection has zero rows, the
\* fetch fails: the only step of the run is the getter's, it stops the script,
\* no cleaner is called, no dictionary is held, nothing is exported.
C23_FailedFetchAborts ==
    [][FetchFails(bot_type)
          => /\ pc = "start" /\ pc' = "stopped"
             /\ fetches'[bot_type] = 1
             /\ out' = NoOutcome /\ df_null' = NoFrame /\ df_plantilla' = NoFrame
             /\ cleaner' = DataCleaner]_vars

C23_Witness ==
    /\ pc = "stopped" /\ FetchFails(bot_type) /\ store[bot_type].reachable
    /\ fetches[bot_type] = 1 /\ out = NoOutcome

(***************************************************************************)
(* The loaders of the DataCleaner.                                         *)
(***************************************************************************)
\* C24: loading the dictionaries is all-or-keep-previous: after a call of
\* load_embedded_dictionaries or of the method process_ch_levels in which a
\* dictionary fails to load, every dictionary of the cleaner holds the value
\* it had before the call.
C24_AllOrKeepPrevious ==
    [][((load_embedded_dictionaries \/ process_ch_levels) /\ pc' = "stopped")
          => cleaner' = cleaner]_vars

(***************************************************************************)
(* The table a cleaner was called with.                                    *)
(***************************************************************************)
\* the table the getter loaded from the store of the brand selected
LoadedTable == load_bot_dictionary(store[bot_type]).df

\* C25: no call of a cleaner modifies the reference table in place: after the
\* call the table that was loaded has the rows, columns and values it was
\* loaded with; a cleaner that needs a changed table (ItemCode as text in
\* SKECHERS) holds the change in a new table.
C25_ReferenceTableNotMutated ==
    pc = "done" =>
        /\ out.held = LoadedTable
        /\ out.dict # out.held => bot_type = "SKECHERS" /\ cleaner.skechers_dict = out.dict

C25_Witness ==
    /\ pc = "done" /\ bot_type = "SKECHERS"
    /\ out.dict # LoadedTable /\ out.held = LoadedTable
    /\ \E i \in 1..Len(LoadedTable.rows) :
          /\ isna(LoadedTable.rows[i]["ItemCode"])
          /\ out.dict.rows[i]["ItemCode"] = <<"n","a","n">>

(***************************************************************************)
(* The getters fetch once.                                                 *)
(***************************************************************************)
\* a step of the getter of brand b
Getter(b) ==
    CASE b = "ADOLFO"   -> get_adolfo_dict
      [] b = "BIRKEN"   -> get_birken_dict
      [] b = "PB"       -> get_pb_dict
      [] b = "SKECHERS" -> get_skechers_dict
      [] b = "NEW ERA"  -> get_new_era_dict
      [] b = "CH"       -> get_ch_dict

\* C26: for one DataCleaner and one brand the store is fetched at most once:
\* a getter called when the brand's dictionary is held returns that table and
\* fetches nothing; a getter that fetches does so once, holds what the store
\* has under the name, and touches no other brand's dictionary or count, in
\* any order of the calls.
C26_GetterFetchesOnce ==
    [][\A b \in Brands :
          Getter(b) =>
             /\ \A c \in Brands \ {b} :
                   /\ cleaner'[AttrOf(c)] = cleaner[AttrOf(c)]
                   /\ fetches'[c] = fetches[c]
             /\ ~is_None(cleaner[AttrOf(b)])
                   => cleaner'[AttrOf(b)] = cleaner[AttrOf(b)] /\ fetches'[b] = fetches[b]
             /\ is_None(cleaner[AttrOf(b)])
                   => /\ fetches'[b] = fetches[b] + 1
                      /\ ~is_None(cleaner'[AttrOf(b)])
                            => cleaner'[AttrOf(b)] = load_data(store[b]).df]_vars

\* two brands were fetched by their getters, and a getter was called again
C26_Witness ==
    /\ bot_type = AnyBrand /\ pc = "loaded"
    /\ ~is_None(cleaner.adolfo_dict) /\ ~is_None(cleaner.ch_dict)
    /\ is_None(cleaner.pb_dict)
    /\ fetches["ADOLFO"] = 1 /\ fetches["CH"] = 1 /\ fetches["PB"] = 0

(***************************************************************************)
(* The grouping of the level files.                                        *)
(***************************************************************************)
\* process_new_era_levels grouped the level files
LevelsGrouped == new_era_levels.source \in {"csv", "no_groups"}

LevelFrame(t) == normalize_column_names(levels.dataframes[t])

LevelGroupCols(t) == SelectSeq(columnas_groupby, LAMBDA c : HasCol(LevelFrame(t), c))

\* the level files that yield a grouped frame
GroupedLevels ==
    {t \in 1..Len(levels.dataframes) :
        Len(LevelGroupCols(t)) > 0 /\ HasCol(LevelFrame(t), "U_Estilo")}

\* the grouped frame of level t
GroupedOf(t) == new_era_levels.grouped[Cardinality({u \in GroupedLevels : u <= t})]

AttributeTuple(r, cols) == [c \in Range(cols) |-> r[c]]

\* C27: pre-aggregating a level file yields exactly one row per distinct
\* attribute tuple of the file, the tuples with a null attribute included, and
\* no other row: no key of the file is lost.
C27_OneRowPerTuple ==
    LevelsGrouped =>
        \A t \in GroupedLevels :
            LET cols   == LevelGroupCols(t)
                tuples == {AttributeTuple(r, cols) : r \in Range(LevelFrame(t).rows)}
                g      == GroupedOf(t)
            IN  /\ {AttributeTuple(r, cols) : r \in Range(g.rows)} = tuples
                /\ Len(g.rows) = Cardinality(tuples)

(***************************************************************************)
(* The dictionary is loaded before the cleaner reads it.                   *)
(***************************************************************************)
\* C28: in every run of process_data the dictionary attribute of the brand
\* selected is loaded (not None) when the brand's cleaner reads it: the cleaner
\* is called only after the getter assigned the attribute, and what the call
\* leaves in the attribute is a table.
C28_DictionaryLoadedBeforeCleaner ==
    /\ pc = "loaded" => ~is_None(cleaner[AttrOf(bot_type)])
    /\ pc = "done" => /\ ~is_None(cleaner[AttrOf(bot_type)])
                      /\ ~is_None(out.held)
                      /\ fetches[bot_type] = 1

\* a cleaner that reads the attribute without calling the getter ran
C28_Witness ==
    /\ pc = "done" /\ bot_type \in {"BIRKEN", "PB", "SKECHERS", "CH"}
    /\ out.status = "ok"
    /\ ~is_None(cleaner[AttrOf(bot_type)])

(***************************************************************************)
(* The extended team-license map.                                          *)
(***************************************************************************)
\* C29: the extended team-license map never decides a league: every key of
\* team_licenses_extended is a key of team_licenses, so the league the
\* resolver gives a record with a blank league is the primary map's league of
\* its team, or the blank value kept when the primary map lacks the team; the
\* team 'NONE' resolves to 'NEW ERA BRANDED'.
C29_ExtendedMapNeverDecides ==
    /\ \A i \in 1..Len(team_licenses_extended) :
          dict_has(team_licenses, team_licenses_extended[i][1])
    /\ ResolverRan =>
          \A k \in BlankRecords :
              LET row == BeforeResolver.rows[k]
              IN  /\ out.df_final.rows[k]["U_Liga"] =
                        IF dict_has(team_licenses, row["U_Team"])
                        THEN dict_get(team_licenses, row["U_Team"])
                        ELSE row["U_Liga"]
                  /\ row["U_Team"] = <<"N","O","N","E">>
                        => out.df_final.rows[k]["U_Liga"]
                              = <<"N","E","W"," ","E","R","A"," ","B","R","A","N","D","E","D">>

\* a record of team 'NONE' with a blank league was resolved
C29_Witness ==
    /\ ResolverRan
    /\ \E k \in BlankRecords :
          /\ BeforeResolver.rows[k]["U_Team"] = <<"N","O","N","E">>
          /\ dict_has(team_licenses_extended, <<"N","O","N","E">>)
          /\ out.df_final.rows[k]["U_Liga"]
                = <<"N","E","W"," ","E","R","A"," ","B","R","A","N","D","E","D">>

(***************************************************************************)
(* The columns clean_ch_data derives from the style code.                  *)
(***************************************************************************)
FirstCharacter(v) == IF Len(v) > 0 THEN v[1] ELSE ""

\* C30: in the output of clean_ch_data, for every record, U_Genero is fixed by
\* the first character of the style code (F gives MACC, W gives WFW, C gives
\* MFW, U gives WACC, anything else the empty string), U_Categoria equals
\* U_Genero, and U_Segmento is FOOTWEAR exactly when U_Genero is WFW or MFW,
\* ACCESSORIES exactly when it is MACC or WACC, and empty otherwise.
C30_ChDerivedColumns ==
    ChReturned =>
        \A r \in OutputRows :
            LET c == FirstCharacter(r["U_Estilo"])
            IN  /\ r["U_Genero"] = CASE c = "F" -> <<"M","A","C","C">>
                                     [] c = "W" -> <<"W","F","W">>
                                     [] c = "C" -> <<"M","F","W">>
                                     [] c = "U" -> <<"W","A","C","C">>
                                     [] OTHER   -> <<>>
                /\ r["U_Categoria"] = r["U_Genero"]
                /\ r["U_Segmento"] = <<"F","O","O","T","W","E","A","R">>
                      <=> r["U_Genero"] \in {<<"W","F","W">>, <<"M","F","W">>}
                /\ r["U_Segmento"] = <<"A","C","C","E","S","S","O","R","I","E","S">>
                      <=> r["U_Genero"] \in {<<"M","A","C","C">>, <<"W","A","C","C">>}
                /\ r["U_Segmento"] = <<>>
                      <=> r["U_Genero"] \notin {<<"W","F","W">>, <<"M","F","W">>,
                                                <<"M","A","C","C">>, <<"W","A","C","C">>}

\* a record whose style code starts with F came out as MACC, ACCESSORIES
C30_Witness ==
    /\ ChReturned
    /\ \E r \in OutputRows :
          /\ FirstCharacter(r["U_Estilo"]) = "F"
          /\ r["U_Genero"] = <<"M","A","C","C">>
          /\ r["U_Segmento"] = <<"A","C","C","E","S","S","O","R","I","E","S">>

====
